---- MODULE Spec2Model ----
(***************************************************************************)
(* The day layout engine of the planner (utils/scheduler.ts): the two      *)
(* entry points generateDailySchedule and generateScheduleForDate, run as  *)
(* a state machine whose steps are the iterations of the engine's loops.   *)
(*                                                                         *)
(* Time is in milliseconds, as Date.getTime() gives it, counted from the   *)
(* midnight that starts day 0; day 0 is a Monday (22 January 2024), so     *)
(* that days 0..9 lie in one month and days 10.. in the next.  The wall    *)
(* clock's seconds are taken to be 0 when the engine runs, and local time  *)
(* has no daylight-saving jump.  date-fns' addMinutes(d, m) is the instant *)
(* d.getTime() + m * 60000, cut to whole milliseconds by Date.             *)
(***************************************************************************)
EXTENDS Integers, Sequences, FiniteSets, TLC

MsPerMinute == 1000 * 60
MsPerDay == 24 * 60 * MsPerMinute

\* the instant h:m on day d
At(d, h, m) == d * MsPerDay + (h * 60 + m) * MsPerMinute

addMinutes(t, m) == t + m * MsPerMinute

\* s sorted by the keys k (k[i] the key of s[i]), equal keys keeping their
\* order: Array.prototype.sort with a comparator a.key - b.key
StableSortByKey(s, k) ==
    LET n == Len(s)
        pos(i) == 1 + Cardinality({j \in 1..n :
                        k[j] < k[i] \/ (k[j] = k[i] /\ j < i)})
    IN [p \in 1..n |-> s[CHOOSE i \in 1..n : pos(i) = p]]

\* the subsequence of the elements at the indices in keep: Array.prototype.filter
RECURSIVE FilterIdx(_, _, _)
FilterIdx(s, keep, i) ==
    IF i > Len(s) THEN <<>>
    ELSE (IF i \in keep THEN <<s[i]>> ELSE <<>>) \o FilterIdx(s, keep, i + 1)

----------------------------------------------------------------------------
\* Calendar of the modelled days

\* date-fns getDay: 0 = Sunday .. 6 = Saturday
getDay(d) == (d + 1) % 7

\* the month a day lies in: 1 for days ..9 (22nd to 31st), 2 from day 10 on
monthOf(d) == IF d < 31 - 21 THEN 1 ELSE 2

\* Date.getDate: the day of the month
getDate(d) == IF monthOf(d) = 1 THEN 22 + d ELSE d - (31 - 22)

\* startOfWeek with the week starting on Sunday: the Sunday on or before d
startOfWeekFromSunday(d) == d - ((d + 1) % 7)

\* startOfWeek(d, { weekStartsOn: 1 }): the Monday on or before d
startOfWeek(d) == d - (d % 7)

endOfWeek(d) == startOfWeek(d) + 6

isWithinInterval(d, lo, hi) == lo <= d /\ d <= hi

----------------------------------------------------------------------------
\* The inputs of one invocation, and the engine's state

VARIABLES
    entry,            \* "daily": generateDailySchedule; "forDate": generateScheduleForDate
    today,            \* the day of new Date()
    date,             \* the target day (today for generateDailySchedule)
    dayConfig,        \* DaySchedule: enabled, startTime, endTime (minutes of the day), breakDuration
    coreTasks,        \* CoreTask[]
    todos,            \* TodoItem[]
    calendarEvents,   \* CalendarEvent[]
    msOfMinute,       \* the seconds and milliseconds setHours and setMinutes keep: those of
                      \* new Date() in generateDailySchedule, of the date argument in
                      \* generateScheduleForDate
    calendarBlocks,   \* the engine's constants, set when it is called:
    calendarScheduledTasks,
    eligibleTodos,
    morningTasks,
    middayTasks,
    afternoonTasks,
    spreadSlots,
    remainingTodos,   \* set when the loop over the remaining items starts
    pc,               \* the engine's position
    idx,              \* the index of the running for-loop (1-based)
    currentTime,      \* the cursor
    spreadSlotIndex,  \* spread slots consumed so far (0-based index of the next)
    remainingAnytimeTasks,
    scheduledTodoIds,
    schedule,         \* the entries pushed so far, in push order
    result            \* the returned list (once pc = "done")

\* the state around the engine: the stores, the application, and a second invocation
VARIABLES
    todaySchedule,          \* useScheduleStore: the installed layout
    activeTaskId,           \* useScheduleStore: the id of the active entry, 0 for null
    showRegenerateConfirm,  \* App: the regenerate dialog is open
    taskStore,              \* useTaskStore: todos
    calendarStore,          \* useCalendarStore: events, and the state of the mount-time fetch
    mounted,                \* the values the mount-time effects closed over
    caller,                 \* the handler that called the engine and awaits its return
    storeOps,               \* the store operations applied to the installed layout
    suspended,              \* the locals of the invocation that is not running
    stage,                  \* which invocations are running: alone, or interleaved
    runs                    \* the layouts returned so far, with their calls

outer == <<todaySchedule, activeTaskId, showRegenerateConfirm, taskStore, calendarStore,
           mounted, caller, storeOps, suspended, stage, runs>>

inputs == <<entry, today, date, dayConfig, coreTasks, todos, calendarEvents, msOfMinute>>
consts == <<calendarBlocks, calendarScheduledTasks, eligibleTodos, morningTasks,
            middayTasks, afternoonTasks, spreadSlots>>
vars == <<entry, today, date, dayConfig, coreTasks, todos, calendarEvents, msOfMinute,
          calendarBlocks, calendarScheduledTasks, eligibleTodos, morningTasks,
          middayTasks, afternoonTasks, spreadSlots, remainingTodos, pc, idx,
          currentTime, spreadSlotIndex, remainingAnytimeTasks, scheduledTodoIds,
          schedule, result, todaySchedule, activeTaskId, showRegenerateConfirm,
          taskStore, calendarStore, mounted, caller, storeOps, suspended, stage, runs>>

\* parseTimeToday / parseTimeForDate of dayConfig.startTime and dayConfig.endTime
parseTimeForDate(minutes, d) == d * MsPerDay + minutes * MsPerMinute + msOfMinute

startTime == parseTimeForDate(dayConfig.startTime, date)
endTime == parseTimeForDate(dayConfig.endTime, date)
breakDuration == dayConfig.breakDuration

----------------------------------------------------------------------------
\* Eligibility and ordering

shouldCoreTaskRunOnDate(task, d) ==
    CASE task.recurrence.type = "daily" ->
            IF task.recurrence.daysOfWeek # {}
            THEN getDay(d) \in task.recurrence.daysOfWeek
            ELSE TRUE
      [] task.recurrence.type = "weekly" -> getDay(d) \in task.recurrence.daysOfWeek
      [] task.recurrence.type = "monthly" -> task.recurrence.dayOfMonth = getDate(d)
      [] OTHER -> FALSE

\* generateDailySchedule's predicate: every interval test is made on today itself
isTodoEligibleToday(todo) ==
    CASE todo.timeframe = "today" -> TRUE
      [] todo.timeframe = "tomorrow" -> FALSE
      [] todo.timeframe = "this_week" ->
            isWithinInterval(today, startOfWeek(today), endOfWeek(today))
      [] todo.timeframe = "next_week" ->
            isWithinInterval(today, startOfWeek(today + 7), endOfWeek(today + 7))
      [] todo.timeframe = "this_month" -> monthOf(today) = monthOf(today)
      [] OTHER -> TRUE

isTodoEligibleForDate(todo, d) ==
    LET daysFromToday == d - today
    IN CASE todo.timeframe = "today" -> daysFromToday = 0
         [] todo.timeframe = "tomorrow" -> daysFromToday <= 1
         [] todo.timeframe = "this_week" ->
               isWithinInterval(d, startOfWeek(today), endOfWeek(today))
         [] todo.timeframe = "next_week" ->
               isWithinInterval(d, startOfWeek(today + 7), endOfWeek(today + 7))
         [] todo.timeframe = "this_month" -> monthOf(d) = monthOf(today)
         [] OTHER -> TRUE

timeframeOrder(tf) ==
    CASE tf = "today" -> 0
      [] tf = "tomorrow" -> 1
      [] tf = "this_week" -> 2
      [] tf = "next_week" -> 3
      [] tf = "this_month" -> 4
      [] tf = "someday" -> 5

\* the comparator of sortTodosByTimeframe: negative, zero or positive
compareTodos(a, b) ==
    LET timeframeDiff == timeframeOrder(a.timeframe) - timeframeOrder(b.timeframe)
    IN IF timeframeDiff # 0 THEN timeframeDiff ELSE a.createdAt - b.createdAt

\* sortTodosByTimeframe returning the list as given
todosUnsorted(list) == list

\* [...todos].sort(compare): a stable sort
sortTodosByTimeframe(list) ==
    LET n == Len(list)
        pos(i) == 1 + Cardinality({j \in 1..n :
                        compareTodos(list[j], list[i]) < 0
                        \/ (compareTodos(list[j], list[i]) = 0 /\ j < i)})
    IN [p \in 1..n |-> list[CHOOSE i \in 1..n : pos(i) = p]]

todoIsEligible(t) ==
    /\ ~t.completed
    /\ IF entry = "daily" THEN isTodoEligibleToday(t) ELSE isTodoEligibleForDate(t, date)

EligibleTodos == sortTodosByTimeframe(SelectSeq(todos, todoIsEligible))

coreTaskRuns(t) == shouldCoreTaskRunOnDate(t, date)

todaysCoreTasks == SelectSeq(coreTasks, coreTaskRuns)

isSpreadTask(t) == t.preferredTime = "spread" \/ t.timesPerDay > 1

isRegularTask(t) == t.preferredTime # "spread" /\ (t.timesPerDay = 0 \/ t.timesPerDay = 1)

spreadTasks == SelectSeq(todaysCoreTasks, isSpreadTask)

regularTasks == SelectSeq(todaysCoreTasks, isRegularTask)

isMorning(t) == t.preferredTime = "morning"
isMidday(t) == t.preferredTime = "midday"
isAfternoon(t) == t.preferredTime = "afternoon"
isAnytime(t) == t.preferredTime = "anytime"

MorningTasks == SelectSeq(regularTasks, isMorning)
MiddayTasks == SelectSeq(regularTasks, isMidday)
AfternoonTasks == SelectSeq(regularTasks, isAfternoon)
AnytimeTasks == SelectSeq(regularTasks, isAnytime)

----------------------------------------------------------------------------
\* Calendar events of the day, time slots and spread slots

\* eventIsTimedOnDate keeping only the events that start on the day
eventStartsOnDate(event, d) ==
    /\ ~event.isAllDay
    /\ event.start < (d + 1) * MsPerDay - 1
    /\ event.start >= d * MsPerDay

\* endOfDay(date) is 23:59:59.999
eventIsTimedOnDate(event, d) ==
    /\ ~event.isAllDay
    /\ event.start < (d + 1) * MsPerDay - 1
    /\ event.end > d * MsPerDay

getTimedEventsForDate(events, d) ==
    FilterIdx(events, {i \in 1..Len(events) : eventIsTimedOnDate(events[i], d)}, 1)

\* clampEvent keeping the event's own start and end
clampEventUnclamped(event, dayStart, dayEnd) ==
    [start |-> event.start, end |-> event.end, event |-> event]

\* the event clamped to the work hours
clampEvent(event, dayStart, dayEnd) ==
    [start |-> IF event.start < dayStart THEN dayStart ELSE event.start,
     end |-> IF event.end > dayEnd THEN dayEnd ELSE event.end,
     event |-> event]

getCalendarBlocksForDate(events, d, dayStart, dayEnd) ==
    LET dayEvents == getTimedEventsForDate(events, d)
        mapped == [i \in 1..Len(dayEvents) |-> clampEvent(dayEvents[i], dayStart, dayEnd)]
        kept == FilterIdx(mapped, {i \in 1..Len(mapped) : mapped[i].start < mapped[i].end}, 1)
    IN StableSortByKey(kept, [i \in 1..Len(kept) |-> kept[i].start])

CalendarBlocks == getCalendarBlocksForDate(calendarEvents, date, startTime, endTime)

calendarEventsToScheduledTasks(events) ==
    [i \in 1..Len(events) |->
        [sourceId |-> events[i].id,
         sourceType |-> "calendar",
         title |-> <<events[i].id, 0, 0>>,
         scheduledStart |-> events[i].start,
         scheduledEnd |-> events[i].end,
         status |-> "pending",
         duration |-> (events[i].end - events[i].start) \div MsPerMinute,
         timeframe |-> "none"]]

CalendarScheduledTasks ==
    calendarEventsToScheduledTasks(getTimedEventsForDate(calendarEvents, date))

\* getTimeSlot(preferredTime, startTime, endTime): thirds of the work day
getTimeSlot(preferredTime, from, to) ==
    LET totalMs == to - from
    IN CASE preferredTime = "morning" ->
               [start |-> from, end |-> from + totalMs \div 3]
         [] preferredTime = "midday" ->
               [start |-> from + totalMs \div 3, end |-> from + (2 * totalMs) \div 3]
         [] preferredTime = "afternoon" ->
               [start |-> from + (2 * totalMs) \div 3, end |-> to]
         [] OTHER -> [start |-> from, end |-> to]

morningSlotEnd == getTimeSlot("morning", startTime, endTime).end
middaySlotStart == getTimeSlot("midday", startTime, endTime).start
afternoonSlotStart == getTimeSlot("afternoon", startTime, endTime).start

\* getSpreadSlots with every slot at the start of its gap: gap * i
getSpreadSlotsAtGapStart(timesPerDay, from, to) ==
    LET totalMs == to - from
    IN IF timesPerDay < 1 THEN <<>>
       ELSE IF timesPerDay = 1 THEN <<from>>
       ELSE [k \in 1..timesPerDay |-> from + (totalMs * (k - 1)) \div timesPerDay]

\* getSpreadSlots(timesPerDay, startTime, endTime): the target instants;
\* gap * i + gap / 2 minutes is totalMs * (2i + 1) / (2 * timesPerDay) ms
getSpreadSlots(timesPerDay, from, to) ==
    LET totalMs == to - from
    IN IF timesPerDay < 1 THEN <<>>
       ELSE IF timesPerDay = 1 THEN <<from>>
       ELSE [k \in 1..timesPerDay |->
                from + (totalMs * (2 * (k - 1) + 1)) \div (2 * timesPerDay)]

timesOf(task) == IF task.timesPerDay = 0 THEN 1 ELSE task.timesPerDay

\* slotsOfTask numbering the instances from 0: instanceNumber: index
slotsOfTaskFromZero(task) ==
    LET slots == getSpreadSlots(timesOf(task), startTime, endTime)
    IN [k \in 1..Len(slots) |-> [time |-> slots[k], task |-> task, instanceNumber |-> k - 1]]

slotsOfTask(task) ==
    LET slots == getSpreadSlots(timesOf(task), startTime, endTime)
    IN [k \in 1..Len(slots) |-> [time |-> slots[k], task |-> task, instanceNumber |-> k]]

RECURSIVE slotsOfTasks(_, _)
slotsOfTasks(tasks, i) ==
    IF i > Len(tasks) THEN <<>> ELSE slotsOfTask(tasks[i]) \o slotsOfTasks(tasks, i + 1)

unsortedSpreadSlots == slotsOfTasks(spreadTasks, 1)

\* SpreadSlots without the sort by target instant
SpreadSlotsUnsorted == unsortedSpreadSlots

SpreadSlots ==
    StableSortByKey(unsortedSpreadSlots,
                    [i \in 1..Len(unsortedSpreadSlots) |-> unsortedSpreadSlots[i].time])

----------------------------------------------------------------------------
\* The cursor and addTask.  An engine state e is a record of the locals the
\* helpers touch: [currentTime, schedule, spreadSlotIndex].

MinGapMinutes == 5
SpreadLookaheadMinutes == 30

\* advanceFrom stopping after the first block the cursor lies in
RECURSIVE advanceFromFirstBlock(_, _, _)
advanceFromFirstBlock(blocks, t, i) ==
    IF i > Len(blocks) THEN t
    ELSE IF t >= blocks[i].start /\ t < blocks[i].end THEN blocks[i].end
    ELSE advanceFromFirstBlock(blocks, t, i + 1)

\* advanceFrom with the cursor moved to the start of the block it lies in
RECURSIVE advanceFromToStart(_, _, _)
advanceFromToStart(blocks, t, i) ==
    IF i > Len(blocks) THEN t
    ELSE advanceFromToStart(blocks,
                     IF t >= blocks[i].start /\ t < blocks[i].end THEN blocks[i].start ELSE t,
                     i + 1)

\* one pass over the sorted blocks, moving the cursor to the end of each block it lies in
RECURSIVE advanceFrom(_, _, _)
advanceFrom(blocks, t, i) ==
    IF i > Len(blocks) THEN t
    ELSE advanceFrom(blocks,
                     IF t >= blocks[i].start /\ t < blocks[i].end THEN blocks[i].end ELSE t,
                     i + 1)

advancePastCalendarBlocks(t) == advanceFrom(calendarBlocks, t, 1)

\* the index of the first block (in sorted order) starting after t; 0 for null
getNextCalendarBlock(t) ==
    LET later == {i \in 1..Len(calendarBlocks) : calendarBlocks[i].start > t}
    IN IF later = {} THEN 0 ELSE CHOOSE i \in later : \A j \in later : i <= j

createBreak(from, duration) ==
    [sourceId |-> "break",
     sourceType |-> "break",
     title |-> <<"Break", 0, 0>>,
     scheduledStart |-> from,
     scheduledEnd |-> addMinutes(from, duration),
     status |-> "pending",
     duration |-> duration,
     timeframe |-> "none"]

\* the cursor after addTask's test of the next block: jump past it when the task
\* would cross into it and fewer than 5 minutes lie before it
skipShortGap(t, duration) ==
    LET nextBlock == getNextCalendarBlock(t)
    IN IF nextBlock # 0 /\ addMinutes(t, duration) > calendarBlocks[nextBlock].start
          /\ calendarBlocks[nextBlock].start - t < MinGapMinutes * MsPerMinute
       THEN advancePastCalendarBlocks(calendarBlocks[nextBlock].end)
       ELSE t

\* actualEndOf with every task stretched or cut to the end of the work day
actualEndAtDayEnd(t, duration) == endTime

\* actualEndOf without the clipping
actualEndUnclipped(t, duration) == addMinutes(t, duration)

\* the end of the placed task: clipped at the end of the work day
actualEndOf(t, duration) ==
    IF addMinutes(t, duration) > endTime THEN endTime ELSE addMinutes(t, duration)

\* addBreak pushing the break without moving the cursor to its end
addBreakKeepingCursor(e) ==
    IF breakDuration > 0 /\ e.currentTime < endTime
    THEN LET t == advancePastCalendarBlocks(e.currentTime)
             breakEnd == addMinutes(t, breakDuration)
             nextBlockAfter == getNextCalendarBlock(t)
         IN IF breakEnd <= endTime
               /\ (nextBlockAfter = 0 \/ breakEnd <= calendarBlocks[nextBlockAfter].start)
            THEN [e EXCEPT !.currentTime = t,
                           !.schedule = Append(@, createBreak(t, breakDuration))]
            ELSE [e EXCEPT !.currentTime = t]
    ELSE e

\* addBreak without the test of the next calendar block
addBreakIgnoringNextBlock(e) ==
    IF breakDuration > 0 /\ e.currentTime < endTime
    THEN LET t == advancePastCalendarBlocks(e.currentTime)
             breakEnd == addMinutes(t, breakDuration)
         IN IF breakEnd <= endTime
            THEN [e EXCEPT !.currentTime = breakEnd,
                           !.schedule = Append(@, createBreak(t, breakDuration))]
            ELSE [e EXCEPT !.currentTime = t]
    ELSE e

\* addBreak without the tests of the end of the work day and of the next block
addBreakUnchecked(e) ==
    IF breakDuration > 0
    THEN [e EXCEPT !.currentTime = addMinutes(e.currentTime, breakDuration),
                   !.schedule = Append(@, createBreak(e.currentTime, breakDuration))]
    ELSE e

\* the break after a task that ended at t: the state with the break pushed, or with
\* only the cursor moved past the blocks it lay in
addBreak(e) ==
    IF breakDuration > 0 /\ e.currentTime < endTime
    THEN LET t == advancePastCalendarBlocks(e.currentTime)
             breakEnd == addMinutes(t, breakDuration)
             nextBlockAfter == getNextCalendarBlock(t)
         IN IF breakEnd <= endTime
               /\ (nextBlockAfter = 0 \/ breakEnd <= calendarBlocks[nextBlockAfter].start)
            THEN [e EXCEPT !.currentTime = breakEnd,
                           !.schedule = Append(@, createBreak(t, breakDuration))]
            ELSE [e EXCEPT !.currentTime = t]
    ELSE e

addTask(e, sourceId, sourceType, title, duration, timeframe) ==
    LET t1 == advancePastCalendarBlocks(e.currentTime)
        t2 == skipShortGap(t1, duration)
        t3 == advancePastCalendarBlocks(t2)
        actualEnd == actualEndOf(t3, duration)
        entryPushed == [sourceId |-> sourceId,
                        sourceType |-> sourceType,
                        title |-> title,
                        scheduledStart |-> t3,
                        scheduledEnd |-> actualEnd,
                        status |-> "pending",
                        duration |-> (actualEnd - t3) \div MsPerMinute,
                        timeframe |-> timeframe]
    IN IF t1 >= endTime THEN [e EXCEPT !.currentTime = t1]
       ELSE IF t3 >= endTime THEN [e EXCEPT !.currentTime = t3]
       ELSE addBreak([e EXCEPT !.currentTime = actualEnd,
                               !.schedule = Append(@, entryPushed)])

\* shouldInsertSpreadTask: is the next spread slot due, or less than 30 minutes away
shouldInsertSpreadTask(e) ==
    /\ e.spreadSlotIndex < Len(spreadSlots)
    /\ \/ e.currentTime >= spreadSlots[e.spreadSlotIndex + 1].time
       \/ addMinutes(e.currentTime, SpreadLookaheadMinutes) > spreadSlots[e.spreadSlotIndex + 1].time

spreadTitle(slot) ==
    IF timesOf(slot.task) > 1
    THEN <<slot.task.id, slot.instanceNumber, timesOf(slot.task)>>
    ELSE <<slot.task.id, 0, 0>>

\* insertSpreadTask(spreadSlots[spreadSlotIndex])
insertSpreadTask(e) ==
    LET slot == spreadSlots[e.spreadSlotIndex + 1]
        placed == addTask(e, slot.task.id, "core", spreadTitle(slot), slot.task.duration, "none")
    IN [placed EXCEPT !.spreadSlotIndex = @ + 1]

\* while (spreadSlot && currentTime < endTime) insertSpreadTask(spreadSlot)
RECURSIVE flushSpread(_)
flushSpread(e) ==
    IF shouldInsertSpreadTask(e) /\ e.currentTime < endTime
    THEN flushSpread(insertSpreadTask(e))
    ELSE e

\* one iteration of a core-task loop: flush the due spread slots, then the task
placeCoreTask(e, task) ==
    addTask(flushSpread(e), task.id, "core", <<task.id, 0, 0>>, task.duration, "none")

engine == [currentTime |-> currentTime, schedule |-> schedule,
           spreadSlotIndex |-> spreadSlotIndex]

\* the helpers' effect on the engine's locals
Becomes(e) ==
    /\ currentTime' = e.currentTime
    /\ schedule' = e.schedule
    /\ spreadSlotIndex' = e.spreadSlotIndex

----------------------------------------------------------------------------
\* The engine's steps

\* isUnscheduledTodo without the test of scheduledTodoIds
isAnyTodo(t) == TRUE

\* remainingTodos, as computed when the remaining-items loop starts
isUnscheduledTodo(t) == t.id \notin scheduledTodoIds

RemainingTodos == sortTodosByTimeframe(SelectSeq(eligibleTodos, isUnscheduledTodo))

\* isMorningTimeframe admitting every tag
anyTimeframe(tf) == TRUE

\* the tags the morning step places: 'today', and in generateScheduleForDate 'tomorrow' too
isMorningTimeframe(tf) == tf = "today" \/ (entry = "forDate" /\ tf = "tomorrow")

\* mergeAndSort without the sort
mergeUnsorted(placed, calendarTasks) == placed \o calendarTasks

\* const fullSchedule = [...schedule, ...calendarScheduledTasks], sorted by scheduledStart
mergeAndSort(placed, calendarTasks) ==
    LET all == placed \o calendarTasks
    IN StableSortByKey(all, [i \in 1..Len(all) |-> all[i].scheduledStart])

\* Generate returning the day's calendar entries on a disabled day
GenerateWithoutEnabledTest ==
    /\ pc = "start"
    /\ IF ~dayConfig.enabled
       THEN /\ pc' = "done"
            /\ result' = CalendarScheduledTasks
            /\ UNCHANGED <<idx, currentTime, spreadSlotIndex, remainingAnytimeTasks,
                           scheduledTodoIds, schedule>>
            /\ UNCHANGED consts
       ELSE /\ calendarBlocks' = CalendarBlocks
            /\ calendarScheduledTasks' = CalendarScheduledTasks
            /\ eligibleTodos' = EligibleTodos
            /\ morningTasks' = MorningTasks
            /\ middayTasks' = MiddayTasks
            /\ afternoonTasks' = AfternoonTasks
            /\ spreadSlots' = SpreadSlots
            /\ pc' = "morning"
            /\ idx' = 1
            /\ currentTime' = startTime
            /\ spreadSlotIndex' = 0
            /\ remainingAnytimeTasks' = AnytimeTasks
            /\ scheduledTodoIds' = {}
            /\ schedule' = <<>>
            /\ UNCHANGED result
    /\ UNCHANGED <<outer, inputs, remainingTodos>>

\* the call: a disabled day returns []; otherwise the locals are set up
Generate ==
    /\ pc = "start"
    /\ IF ~dayConfig.enabled
       THEN /\ pc' = "done"
            /\ result' = <<>>
            /\ UNCHANGED <<idx, currentTime, spreadSlotIndex, remainingAnytimeTasks,
                           scheduledTodoIds, schedule>>
            /\ UNCHANGED consts
       ELSE /\ calendarBlocks' = CalendarBlocks
            /\ calendarScheduledTasks' = CalendarScheduledTasks
            /\ eligibleTodos' = EligibleTodos
            /\ morningTasks' = MorningTasks
            /\ middayTasks' = MiddayTasks
            /\ afternoonTasks' = AfternoonTasks
            /\ spreadSlots' = SpreadSlots
            /\ pc' = "morning"
            /\ idx' = 1
            /\ currentTime' = startTime
            /\ spreadSlotIndex' = 0
            /\ remainingAnytimeTasks' = AnytimeTasks
            /\ scheduledTodoIds' = {}
            /\ schedule' = <<>>
            /\ UNCHANGED result
    /\ UNCHANGED <<outer, inputs, remainingTodos>>

\* one iteration of for (const task of tasks) { flush spread; addTask(task) }
CoreLoopStep(phase, tasks) ==
    /\ pc = phase
    /\ idx <= Len(tasks)
    /\ Becomes(placeCoreTask(engine, tasks[idx]))
    /\ idx' = idx + 1
    /\ UNCHANGED <<pc, remainingAnytimeTasks, scheduledTodoIds, result>>
    /\ UNCHANGED <<outer, inputs, consts, remainingTodos>>

CoreLoopDone(phase, tasks, next) ==
    /\ pc = phase
    /\ idx > Len(tasks)
    /\ pc' = next
    /\ idx' = 1
    /\ UNCHANGED <<currentTime, spreadSlotIndex, remainingAnytimeTasks, scheduledTodoIds,
                   schedule, result>>
    /\ UNCHANGED <<outer, inputs, consts, remainingTodos>>

MorningTask == CoreLoopStep("morning", morningTasks)
MorningDone == CoreLoopDone("morning", morningTasks, "morningTodos")

\* one iteration of the morning loop over eligibleTodos
MorningTodo ==
    /\ pc = "morningTodos"
    /\ idx <= Len(eligibleTodos)
    /\ currentTime < morningSlotEnd
    /\ LET todo == eligibleTodos[idx]
           e1 == IF shouldInsertSpreadTask(engine) THEN insertSpreadTask(engine) ELSE engine
       IN IF todo.id \in scheduledTodoIds
          THEN /\ idx' = idx + 1
               /\ UNCHANGED <<pc, currentTime, spreadSlotIndex, scheduledTodoIds, schedule>>
          ELSE IF e1.currentTime >= morningSlotEnd
          THEN /\ Becomes(e1)
               /\ pc' = "middayGap"
               /\ UNCHANGED <<idx, scheduledTodoIds>>
          ELSE IF isMorningTimeframe(todo.timeframe)
          THEN /\ Becomes(addTask(e1, todo.id, "todo", <<todo.id, 0, 0>>, todo.duration,
                                  todo.timeframe))
               /\ scheduledTodoIds' = scheduledTodoIds \cup {todo.id}
               /\ idx' = idx + 1
               /\ UNCHANGED pc
          ELSE /\ Becomes(e1)
               /\ idx' = idx + 1
               /\ UNCHANGED <<pc, scheduledTodoIds>>
    /\ UNCHANGED <<remainingAnytimeTasks, result>>
    /\ UNCHANGED <<outer, inputs, consts, remainingTodos>>

MorningTodosDone ==
    /\ pc = "morningTodos"
    /\ (idx > Len(eligibleTodos) \/ currentTime >= morningSlotEnd)
    /\ pc' = "middayGap"
    /\ UNCHANGED <<idx, currentTime, spreadSlotIndex, remainingAnytimeTasks,
                   scheduledTodoIds, schedule, result>>
    /\ UNCHANGED <<outer, inputs, consts, remainingTodos>>

\* the gap-fill loops run while the cursor is before the boundary, the bucket the
\* gap leads to is not empty and anytime tasks remain
gapFillRuns(boundary, tasks) ==
    currentTime < boundary /\ Len(tasks) > 0 /\ Len(remainingAnytimeTasks) > 0

\* one iteration of a gap-fill loop: a due spread slot, or else the next anytime task
GapFillStep(phase, boundary, tasks) ==
    /\ pc = phase
    /\ gapFillRuns(boundary, tasks)
    /\ IF shouldInsertSpreadTask(engine)
       THEN /\ Becomes(insertSpreadTask(engine))
            /\ UNCHANGED remainingAnytimeTasks
       ELSE /\ Becomes(addTask(engine, Head(remainingAnytimeTasks).id, "core",
                               <<Head(remainingAnytimeTasks).id, 0, 0>>,
                               Head(remainingAnytimeTasks).duration, "none"))
            /\ remainingAnytimeTasks' = Tail(remainingAnytimeTasks)
    /\ UNCHANGED <<pc, idx, scheduledTodoIds, result>>
    /\ UNCHANGED <<outer, inputs, consts, remainingTodos>>

GapFillDone(phase, boundary, tasks, next) ==
    /\ pc = phase
    /\ ~gapFillRuns(boundary, tasks)
    /\ pc' = next
    /\ idx' = 1
    /\ UNCHANGED <<currentTime, spreadSlotIndex, remainingAnytimeTasks, scheduledTodoIds,
                   schedule, result>>
    /\ UNCHANGED <<outer, inputs, consts, remainingTodos>>

MiddayGapFill == GapFillStep("middayGap", middaySlotStart, middayTasks)
MiddayGapDone == GapFillDone("middayGap", middaySlotStart, middayTasks, "midday")

MiddayTask == CoreLoopStep("midday", middayTasks)
MiddayDone == CoreLoopDone("midday", middayTasks, "afternoonGap")

AfternoonGapFill == GapFillStep("afternoonGap", afternoonSlotStart, afternoonTasks)
AfternoonGapDone == GapFillDone("afternoonGap", afternoonSlotStart, afternoonTasks, "afternoon")

AfternoonTask == CoreLoopStep("afternoon", afternoonTasks)
AfternoonDone == CoreLoopDone("afternoon", afternoonTasks, "anytime")

AnytimeTask == CoreLoopStep("anytime", remainingAnytimeTasks)

\* the anytime loop ends and remainingTodos is computed
AnytimeDone ==
    /\ pc = "anytime"
    /\ idx > Len(remainingAnytimeTasks)
    /\ remainingTodos' = RemainingTodos
    /\ pc' = "todos"
    /\ idx' = 1
    /\ UNCHANGED <<currentTime, spreadSlotIndex, remainingAnytimeTasks, scheduledTodoIds,
                   schedule, result>>
    /\ UNCHANGED <<outer, inputs, consts>>

\* one iteration of the loop over remainingTodos
RemainingTodo ==
    /\ pc = "todos"
    /\ idx <= Len(remainingTodos)
    /\ currentTime < endTime
    /\ LET todo == remainingTodos[idx]
           e1 == flushSpread(engine)
       IN IF e1.currentTime >= endTime
          THEN /\ Becomes(e1)
               /\ pc' = "flush"
               /\ UNCHANGED idx
          ELSE /\ Becomes(addTask(e1, todo.id, "todo", <<todo.id, 0, 0>>, todo.duration,
                                  todo.timeframe))
               /\ idx' = idx + 1
               /\ UNCHANGED pc
    /\ UNCHANGED <<remainingAnytimeTasks, scheduledTodoIds, result>>
    /\ UNCHANGED <<outer, inputs, consts, remainingTodos>>

RemainingTodosDone ==
    /\ pc = "todos"
    /\ (idx > Len(remainingTodos) \/ currentTime >= endTime)
    /\ pc' = "flush"
    /\ UNCHANGED <<idx, currentTime, spreadSlotIndex, remainingAnytimeTasks,
                   scheduledTodoIds, schedule, result>>
    /\ UNCHANGED <<outer, inputs, consts, remainingTodos>>

\* one iteration of the final loop over the spread slots not yet placed
FinalSpread ==
    /\ pc = "flush"
    /\ spreadSlotIndex < Len(spreadSlots)
    /\ currentTime < endTime
    /\ Becomes(insertSpreadTask(engine))
    /\ UNCHANGED <<pc, idx, remainingAnytimeTasks, scheduledTodoIds, result>>
    /\ UNCHANGED <<outer, inputs, consts, remainingTodos>>

\* the calendar entries are merged in, the list is sorted and returned
Return ==
    /\ pc = "flush"
    /\ ~(spreadSlotIndex < Len(spreadSlots) /\ currentTime < endTime)
    /\ result' = mergeAndSort(schedule, calendarScheduledTasks)
    /\ pc' = "done"
    /\ UNCHANGED <<idx, currentTime, spreadSlotIndex, remainingAnytimeTasks,
                   scheduledTodoIds, schedule>>
    /\ UNCHANGED <<outer, inputs, consts, remainingTodos>>

Next ==
    \/ Generate
    \/ MorningTask
    \/ MorningDone
    \/ MorningTodo
    \/ MorningTodosDone
    \/ MiddayGapFill
    \/ MiddayGapDone
    \/ MiddayTask
    \/ MiddayDone
    \/ AfternoonGapFill
    \/ AfternoonGapDone
    \/ AfternoonTask
    \/ AfternoonDone
    \/ AnytimeTask
    \/ AnytimeDone
    \/ RemainingTodo
    \/ RemainingTodosDone
    \/ FinalSpread
    \/ Return

----------------------------------------------------------------------------
\* The inputs the engine is run on

MaxEvents == 2
MaxCore == 2
MaxTodos == 2

\* timesPerDay is 1 to 5
MaxTimesPerDay == 5

everyDay == [type |-> "daily", daysOfWeek |-> {}, dayOfMonth |-> 0]

Core(preferredTime, duration, timesPerDay) ==
    [id |-> <<"core", 0>>, duration |-> duration, timesPerDay |-> timesPerDay,
     recurrence |-> everyDay, preferredTime |-> preferredTime]

Todo(timeframe, duration, createdAt, completed) ==
    [id |-> <<"todo", 0>>, duration |-> duration, timeframe |-> timeframe,
     completed |-> completed, createdAt |-> createdAt]

\* an event from h1:m1 to h2:m2 of the day `offset` days after the target day
Event(offset, h1, m1, h2, m2, isAllDay) ==
    [id |-> <<"event", 0>>, offset |-> offset, from |-> h1 * 60 + m1, to |-> h2 * 60 + m2,
     isAllDay |-> isAllDay]

\* the sequences of at most max of the options, in the options' order
SubSeqs(options, max) ==
    {FilterIdx(options, S, 1) :
        S \in {T \in SUBSET (1..Len(options)) : Cardinality(T) <= max}}

\* the stores give every record its own id
WithIds(list, kind) == [i \in 1..Len(list) |-> [list[i] EXCEPT !.id = <<kind, i>>]]

\* the events as the calendar store holds them: ISO instants
EventsOn(list, d) ==
    [i \in 1..Len(list) |->
        [id |-> <<"event", i>>,
         start |-> (d + list[i].offset) * MsPerDay + list[i].from * MsPerMinute,
         end |-> (d + list[i].offset) * MsPerDay + list[i].to * MsPerMinute,
         isAllDay |-> list[i].isAllDay]]

Config(enabled, h1, h2, break) ==
    [enabled |-> enabled, startTime |-> h1 * 60, endTime |-> h2 * 60, breakDuration |-> break]

\* the entry point, today and the target day
Calls == {<<"daily", 2, 2>>, <<"forDate", 2, 2>>, <<"forDate", 2, 3>>}

BlockEvents ==
    << Event(0, 10, 0, 11, 0, FALSE),
       Event(0, 9, 2, 9, 30, FALSE),
       Event(0, 9, 32, 10, 0, FALSE),
       Event(0, 8, 0, 9, 30, FALSE),
       Event(0, 11, 30, 13, 0, FALSE),
       Event(0, 10, 0, 10, 30, FALSE),
       Event(0, 9, 0, 17, 0, TRUE),
       Event(1, 10, 0, 11, 0, FALSE) >>

BlockCore ==
    << Core("anytime", 90, 1), Core("anytime", 30, 1), Core("morning", 30, 1),
       Core("spread", 30, 2) >>

BlockTodos == << Todo("today", 30, 1, FALSE), Todo("this_week", 120, 1, FALSE) >>

BlockConfigs == {Config(TRUE, 9, 12, 0), Config(TRUE, 9, 12, 10), Config(TRUE, 9, 17, 10)}

BucketCore ==
    << Core("morning", 30, 1), Core("morning", 240, 1), Core("midday", 30, 1),
       Core("afternoon", 30, 1), Core("anytime", 30, 1), Core("spread", 30, 3),
       Core("spread", 45, 1) >>

BucketTodos ==
    << Todo("someday", 30, 1, FALSE), Todo("today", 30, 3, FALSE), Todo("today", 60, 2, FALSE),
       Todo("tomorrow", 30, 1, FALSE), Todo("this_week", 30, 1, FALSE),
       Todo("next_week", 30, 1, FALSE), Todo("today", 30, 1, TRUE) >>

BucketEvents == << Event(0, 10, 0, 11, 0, FALSE) >>

BucketConfigs == {Config(TRUE, 9, 17, 0), Config(TRUE, 9, 17, 10)}

SoloDurations == {30, 60, 200, 239, 240}

SoloConfigs ==
    {Config(TRUE, 9, 17, 0), Config(TRUE, 9, 17, 10), Config(TRUE, 9, 12, 0),
     Config(TRUE, 17, 9, 0), Config(TRUE, 9, 9, 10), Config(FALSE, 9, 17, 10)}

EngineIdle ==
    /\ pc = "start"
    /\ idx = 1
    /\ currentTime = 0
    /\ spreadSlotIndex = 0
    /\ remainingAnytimeTasks = <<>>
    /\ scheduledTodoIds = {}
    /\ schedule = <<>>
    /\ result = <<>>
    /\ calendarBlocks = <<>>
    /\ calendarScheduledTasks = <<>>
    /\ eligibleTodos = <<>>
    /\ morningTasks = <<>>
    /\ middayTasks = <<>>
    /\ afternoonTasks = <<>>
    /\ spreadSlots = <<>>
    /\ remainingTodos = <<>>

\* few tasks among many external blocks
InitBlocks ==
    /\ \E call \in Calls :
          /\ entry = call[1] /\ today = call[2] /\ date = call[3]
          /\ \E ev \in SubSeqs(BlockEvents, MaxEvents) : calendarEvents = EventsOn(ev, call[3])
    /\ dayConfig \in BlockConfigs
    /\ \E c \in SubSeqs(BlockCore, 1) : coreTasks = WithIds(c, "core")
    /\ \E t \in SubSeqs(BlockTodos, 1) : todos = WithIds(t, "todo")

\* many tasks and items around at most one external block
InitBuckets ==
    /\ \E call \in Calls :
          /\ entry = call[1] /\ today = call[2] /\ date = call[3]
          /\ \E ev \in SubSeqs(BucketEvents, 1) : calendarEvents = EventsOn(ev, call[3])
    /\ dayConfig \in BucketConfigs
    /\ \E c \in SubSeqs(BucketCore, MaxCore) : coreTasks = WithIds(c, "core")
    /\ \E t \in SubSeqs(BucketTodos, MaxTodos) : todos = WithIds(t, "todo")

\* one obligation alone, in every window
InitSolo ==
    /\ \E call \in Calls : entry = call[1] /\ today = call[2] /\ date = call[3]
    /\ dayConfig \in SoloConfigs
    /\ calendarEvents = <<>>
    /\ todos = <<>>
    /\ \E n \in 1..MaxTimesPerDay, d \in SoloDurations, p \in {"spread", "anytime"} :
          coreTasks = WithIds(<<Core(p, d, n)>>, "core")

\* the minutes of the day at which the windows of InitWindows start and end
WindowStarts == {0, 9 * 60, 9 * 60 + 7}
WindowEnds == {9 * 60 + 10, 10 * 60 + 40, 12 * 60, 16 * 60 + 59, 17 * 60, 23 * 60 + 59}

\* one spread obligation alone, in many windows
InitWindows ==
    /\ entry = "daily" /\ today = 2 /\ date = 2
    /\ \E from \in WindowStarts, to \in WindowEnds, break \in {0, 10} :
          dayConfig = [enabled |-> TRUE, startTime |-> from, endTime |-> to,
                       breakDuration |-> break]
    /\ calendarEvents = <<>>
    /\ todos = <<>>
    /\ \E n \in 1..MaxTimesPerDay : coreTasks = WithIds(<<Core("spread", 15, n)>>, "core")

EdgeEvents ==
    << Event(0, 10, 0, 11, 0, FALSE),
       Event(0, 9, 2, 13, 0, FALSE),
       Event(0, 18, 0, 19, 0, FALSE),
       Event(0 - 1, 23, 0, 25, 0, FALSE),
       Event(1, 10, 0, 11, 0, FALSE),
       Event(0, 9, 0, 17, 0, TRUE) >>

EdgeCore == << Core("morning", 30, 1), Core("spread", 30, 2) >>

EdgeTodos == << Todo("today", 30, 1, FALSE), Todo("this_week", 30, 1, FALSE) >>

EdgeConfigs ==
    {Config(TRUE, 17, 9, 10), Config(TRUE, 9, 9, 0), Config(FALSE, 9, 17, 10),
     Config(TRUE, 9, 12, 10)}

\* disabled days, empty and inverted windows, events outside the work hours or
\* the target day, and a block that reaches the end of the window
InitEdges ==
    /\ \E call \in Calls :
          /\ entry = call[1] /\ today = call[2] /\ date = call[3]
          /\ \E ev \in SubSeqs(EdgeEvents, MaxEvents) : calendarEvents = EventsOn(ev, call[3])
    /\ dayConfig \in EdgeConfigs
    /\ \E c \in SubSeqs(EdgeCore, 1) : coreTasks = WithIds(c, "core")
    /\ \E t \in SubSeqs(EdgeTodos, MaxTodos) : todos = WithIds(t, "todo")

\* today is a Wednesday (24 January) or the Tuesday after (30 January); the target
\* day runs from three days before today to two weeks after it
DateCalls ==
    {<<"daily", t, t>> : t \in {2, 8}}
        \cup {<<"forDate", t, t + k>> : t \in {2, 8}, k \in (0 - 3)..14}

DateTodos ==
    << Todo("today", 30, 1, FALSE), Todo("tomorrow", 30, 1, FALSE),
       Todo("this_week", 30, 1, FALSE), Todo("next_week", 30, 1, FALSE),
       Todo("this_month", 30, 1, FALSE), Todo("someday", 30, 1, FALSE),
       Todo("today", 30, 1, TRUE), Todo("this_week", 30, 1, TRUE),
       Todo("next_week", 30, 1, TRUE), Todo("this_month", 30, 1, TRUE),
       Todo("someday", 30, 1, TRUE) >>

\* one one-off item alone, for many pairs of today and target day
InitDates ==
    /\ \E call \in DateCalls : entry = call[1] /\ today = call[2] /\ date = call[3]
    /\ dayConfig = Config(TRUE, 9, 17, 0)
    /\ calendarEvents = <<>>
    /\ coreTasks = <<>>
    /\ \E t \in SubSeqs(DateTodos, 1) : todos = WithIds(t, "todo")

SpreadCore ==
    << Core("spread", 30, 3), Core("spread", 45, 2), Core("spread", 30, 1),
       Core("spread", 15, 1) >>

SpreadTodos == << Todo("today", 30, 1, FALSE), Todo("this_week", 30, 1, FALSE) >>

SpreadEvents == << Event(0, 10, 0, 10, 30, FALSE), Event(0, 10, 0, 11, 0, FALSE) >>

SpreadConfigs == {Config(TRUE, 9, 17, 0), Config(TRUE, 9, 12, 10)}

\* several spread obligations at once, around blocks that start together
InitSpreads ==
    /\ \E call \in Calls :
          /\ entry = call[1] /\ today = call[2] /\ date = call[3]
          /\ \E ev \in SubSeqs(SpreadEvents, MaxEvents) : calendarEvents = EventsOn(ev, call[3])
    /\ dayConfig \in SpreadConfigs
    /\ \E c \in SubSeqs(SpreadCore, MaxCore) : coreTasks = WithIds(c, "core")
    /\ \E t \in SubSeqs(SpreadTodos, 1) : todos = WithIds(t, "todo")

GapCore == << Core("anytime", 30, 1), Core("midday", 30, 1), Core("afternoon", 30, 1) >>

GapTodos == << Todo("today", 30, 1, FALSE), Todo("today", 120, 1, FALSE) >>

GapEvents == << Event(0, 8, 0, 10, 30, FALSE), Event(0, 9, 0, 11, 30, FALSE) >>

\* a block that covers the boundary of a third of the day, before gap-fill
InitGaps ==
    /\ \E call \in Calls :
          /\ entry = call[1] /\ today = call[2] /\ date = call[3]
          /\ \E ev \in SubSeqs(GapEvents, 1) : calendarEvents = EventsOn(ev, call[3])
    /\ dayConfig = Config(TRUE, 9, 12, 0)
    /\ \E c \in SubSeqs(GapCore, MaxCore) : coreTasks = WithIds(c, "core")
    /\ \E t \in SubSeqs(GapTodos, 1) : todos = WithIds(t, "todo")

\* no store, no application and no second invocation around the engine
NoInvocation == [pc |-> "none"]

OuterIdle ==
    /\ todaySchedule = <<>>
    /\ activeTaskId = 0
    /\ showRegenerateConfirm = FALSE
    /\ taskStore = [todos |-> <<>>]
    /\ calendarStore = [events |-> <<>>, fetch |-> "none"]
    /\ mounted = [todos |-> <<>>]
    /\ caller = "none"
    /\ storeOps = 0
    /\ suspended = NoInvocation
    /\ stage = "engine"
    /\ runs = <<>>

\* the engine alone, called on the whole minute
Init ==
    EngineIdle /\ OuterIdle /\ msOfMinute = 0 /\ (InitBlocks \/ InitBuckets \/ InitSolo \/ InitWindows \/ InitEdges \/ InitDates
                     \/ InitSpreads \/ InitGaps)

Spec == Init /\ [][Next]_vars

----------------------------------------------------------------------------
\* Properties of the returned list

Returned == pc = "done" /\ dayConfig.enabled

isTaskEntry(x) == x.sourceType = "core" \/ x.sourceType = "todo"

TaskEntries == {i \in 1..Len(result) : isTaskEntry(result[i])}

BreakEntries == {i \in 1..Len(result) : result[i].sourceType = "break"}

CalendarEntries == {i \in 1..Len(result) : result[i].sourceType = "calendar"}

\* the external blocks of the target day that are not whole-day, clamped to the
\* work hours, as intervals <<start, end>>
ClampedBlocks ==
    {b \in {<<IF calendarEvents[i].start < startTime THEN startTime ELSE calendarEvents[i].start,
              IF calendarEvents[i].end > endTime THEN endTime ELSE calendarEvents[i].end>> :
                i \in {j \in 1..Len(calendarEvents) :
                         eventIsTimedOnDate(calendarEvents[j], date)}} :
       b[1] < b[2]}

\* the duration the obligation or one-off item behind a returned entry asks for
RequestedDuration(x) ==
    LET from == IF x.sourceType = "core" THEN coreTasks ELSE todos
    IN from[CHOOSE k \in 1..Len(from) : from[k].id = x.sourceId].duration

Disjoint(s1, e1, s2, e2) == e1 <= s2 \/ e2 <= s1

\* C1: no two returned obligation or one-off activities overlap in time
C1_NoTaskOverlap ==
    Returned =>
        \A i \in TaskEntries : \A j \in TaskEntries :
            i # j => Disjoint(result[i].scheduledStart, result[i].scheduledEnd,
                              result[j].scheduledStart, result[j].scheduledEnd)

\* two or more tasks were placed around an external block, with breaks
C1_Witness ==
    /\ Returned
    /\ Cardinality(TaskEntries) >= 2
    /\ BreakEntries # {}
    /\ ClampedBlocks # {}

\* C2: no returned obligation or one-off activity overlaps an external block
\* clamped to the work hours
C2_NoBlockOverlap ==
    Returned =>
        \A i \in TaskEntries : \A b \in ClampedBlocks :
            Disjoint(result[i].scheduledStart, result[i].scheduledEnd, b[1], b[2])

\* C3: every returned entry that is not calendar-derived lies in the work window
C3_WithinWindow ==
    Returned =>
        \A i \in 1..Len(result) :
            result[i].sourceType # "calendar" =>
                /\ result[i].scheduledStart >= startTime
                /\ result[i].scheduledEnd <= endTime

\* a task was clipped at the end of the window, and an external block ends at or
\* after the end of the window
C3_Witness ==
    /\ Returned
    /\ \E i \in TaskEntries :
          /\ result[i].scheduledEnd = endTime
          /\ RequestedDuration(result[i]) > result[i].duration
    /\ \E j \in 1..Len(calendarEvents) :
          /\ eventIsTimedOnDate(calendarEvents[j], date)
          /\ calendarEvents[j].end >= endTime
          /\ calendarEvents[j].start < endTime

\* C4: the returned list is sorted ascending by scheduledStart
C4_SortedByStart ==
    Returned =>
        \A i \in 1..Len(result) : \A j \in 1..Len(result) :
            i < j => result[i].scheduledStart <= result[j].scheduledStart

\* a calendar entry, appended after the placed entries, starts before one of them
C4_Witness ==
    /\ Returned
    /\ \E i \in 1..Len(schedule) : \E j \in 1..Len(calendarScheduledTasks) :
          calendarScheduledTasks[j].scheduledStart < schedule[i].scheduledStart
    /\ BreakEntries # {}

\* the scenario of C5: a 09:00-12:00 window, one external block 10:00-11:00, one
\* no-preference obligation of 90 minutes and nothing else
C5_Scenario ==
    /\ dayConfig.enabled
    /\ dayConfig.startTime = 9 * 60 /\ dayConfig.endTime = 12 * 60
    /\ todos = <<>>
    /\ Len(calendarEvents) = 1
    /\ ~calendarEvents[1].isAllDay
    /\ calendarEvents[1].start = At(date, 10, 0) /\ calendarEvents[1].end = At(date, 11, 0)
    /\ Len(coreTasks) = 1
    /\ coreTasks[1].preferredTime = "anytime" /\ coreTasks[1].timesPerDay = 1
    /\ coreTasks[1].duration = 90

\* C5: in that scenario the obligation is not placed at 09:00 but 11:00-12:00,
\* with granted duration 60
C5_PlacedAfterBlock ==
    (C5_Scenario /\ pc = "done") =>
        /\ \A i \in TaskEntries : result[i].scheduledStart # At(date, 9, 0)
        /\ \E i \in TaskEntries :
              /\ result[i].scheduledStart = At(date, 11, 0)
              /\ result[i].scheduledEnd = At(date, 12, 0)
              /\ result[i].duration = 60

\* C6: a returned obligation or one-off activity that starts less than 5 minutes
\* before a clamped block's start ends at or before that start
C6_NoCrossingAfterShortGap ==
    Returned =>
        \A i \in TaskEntries : \A b \in ClampedBlocks :
            (b[1] > result[i].scheduledStart
             /\ b[1] - result[i].scheduledStart < 5 * MsPerMinute)
                => result[i].scheduledEnd <= b[1]


\* the scenario of C7 and C8: a 09:00-17:00 window without breaks, one obligation
\* with repeat count 3 and preference spread, of a duration d with 0 < 2d < 480,
\* and nothing else
C7_Scenario ==
    /\ dayConfig = Config(TRUE, 9, 17, 0)
    /\ todos = <<>>
    /\ calendarEvents = <<>>
    /\ Len(coreTasks) = 1
    /\ coreTasks[1].preferredTime = "spread" /\ coreTasks[1].timesPerDay = 3
    /\ 0 < 2 * coreTasks[1].duration /\ 2 * coreTasks[1].duration < 480

\* C7: in that scenario exactly 3 entries are returned, titled (1/3), (2/3), (3/3)
\* in that order
C7_ThreeInstances ==
    (C7_Scenario /\ pc = "done") =>
        /\ Len(result) = 3
        /\ \A k \in 1..3 :
              /\ result[k].sourceType = "core"
              /\ result[k].title = <<coreTasks[1].id, k, 3>>

\* the scenario was run with the longest duration it allows: the third instance is clipped
C7_Witness ==
    /\ C7_Scenario /\ pc = "done"
    /\ coreTasks[1].duration = 239
    /\ Len(result) = 3
    /\ result[3].duration < 239

\* C8: in that scenario the three instances start at 10:20, 13:00 and 15:40
C8_AtTargetInstants ==
    (C7_Scenario /\ pc = "done") =>
        /\ Len(result) = 3
        /\ result[1].scheduledStart = At(date, 10, 20)
        /\ result[2].scheduledStart = At(date, 13, 0)
        /\ result[3].scheduledStart = At(date, 15, 40)

SlotsComputed == pc # "start" /\ dayConfig.enabled

\* slot i (0-indexed) of N lies at start + (span/N)*i + (span/N)/2, stated without division
AtSlotFormula(slot) ==
    LET n == timesOf(slot.task)
        i == slot.instanceNumber - 1
    IN 2 * n * (slot.time - startTime) = (endTime - startTime) * (2 * i + 1)

SlotsOf(task) == {k \in 1..Len(spreadSlots) : spreadSlots[k].task = task}

\* C9: every target instant of every spread obligation, repeat count 1 included,
\* lies at start + (span/N)*i + (span/N)/2
C9_SlotFormula ==
    SlotsComputed => \A k \in 1..Len(spreadSlots) : AtSlotFormula(spreadSlots[k])

\* C9 as amended: a spread obligation with repeat count N in 2..5 has N target
\* instants, slot i at start + (span/N)*i + (span/N)/2 for i = 0..N-1; with
\* repeat count 1 its single target instant is the start of the window
C9_SlotFormulaFromTwo ==
    SlotsComputed =>
        /\ \A k \in 1..Len(spreadSlots) :
              IF timesOf(spreadSlots[k].task) >= 2
              THEN AtSlotFormula(spreadSlots[k])
              ELSE spreadSlots[k].time = startTime
        /\ \A t \in 1..Len(coreTasks) :
              isSpreadTask(coreTasks[t]) =>
                 {spreadSlots[k].instanceNumber : k \in SlotsOf(coreTasks[t])}
                     = 1..timesOf(coreTasks[t])

\* five target instants were computed in a window whose span is no multiple of
\* ten minutes
C9_Witness ==
    /\ SlotsComputed
    /\ Len(spreadSlots) = 5
    /\ (endTime - startTime) % (10 * MsPerMinute) # 0
    /\ endTime > startTime

\* the one-off item behind a returned entry
TodoOf(x) == todos[CHOOSE k \in 1..Len(todos) : todos[k].id = x.sourceId]

TodoEntries == {i \in 1..Len(result) : result[i].sourceType = "todo"}

MoreUrgent(a, b) ==
    \/ timeframeOrder(a.timeframe) < timeframeOrder(b.timeframe)
    \/ /\ timeframeOrder(a.timeframe) = timeframeOrder(b.timeframe)
       /\ a.createdAt < b.createdAt

\* C10: returned one-off items appear in urgency order (tag rank, then creation time)
C10_UrgencyOrder ==
    Returned =>
        \A i \in TodoEntries : \A j \in TodoEntries :
            MoreUrgent(TodoOf(result[i]), TodoOf(result[j]))
                => result[i].scheduledStart <= result[j].scheduledStart

\* a 'today' item placed by the morning step and a 'this_week' item placed by the
\* remaining-items step, with an obligation, a spread instance and an external block
C10_Witness ==
    /\ Returned
    /\ \E i \in TodoEntries : \E j \in TodoEntries :
          /\ result[i].timeframe = "today" /\ result[i].sourceId \in scheduledTodoIds
          /\ result[j].timeframe = "this_week" /\ result[j].sourceId \notin scheduledTodoIds
          /\ result[i].duration = 30 /\ result[j].duration = 30
    /\ \E i \in TaskEntries : result[i].sourceType = "core" /\ result[i].title[2] = 0
    /\ \E i \in TaskEntries : result[i].sourceType = "core" /\ result[i].title[2] > 0
    /\ ClampedBlocks # {}


Running == pc # "start" /\ dayConfig.enabled

\* the obligation and one-off entries pushed so far
PlacedTasks == {i \in 1..Len(schedule) : isTaskEntry(schedule[i])}

MinOf(a, b) == IF a <= b THEN a ELSE b

\* C11: every placed obligation or one-off activity is granted
\* min(requested duration, end of window - scheduledStart), ends at its start plus
\* the granted duration, and is never of zero length
C11_GrantedDuration ==
    Running =>
        \A i \in PlacedTasks :
            LET x == schedule[i]
            IN /\ x.duration * MsPerMinute
                    = MinOf(RequestedDuration(x) * MsPerMinute, endTime - x.scheduledStart)
               /\ x.scheduledEnd = x.scheduledStart + x.duration * MsPerMinute
               /\ RequestedDuration(x) > 0 => x.duration > 0

\* one activity was granted its full duration and a later one was clipped
C11_Witness ==
    /\ Returned
    /\ \E i \in TaskEntries : result[i].duration = RequestedDuration(result[i])
    /\ \E i \in TaskEntries :
          /\ result[i].duration < RequestedDuration(result[i])
          /\ result[i].duration > 0


\* the pushed obligation and one-off entries granted less than they asked for
ClippedTasks == {i \in PlacedTasks : schedule[i].duration < RequestedDuration(schedule[i])}

\* nothing, not even a break, was pushed after an entry that reached the end of the
\* window; no activity starts at or after the end; at most one activity is clipped
\* and it ends exactly at the end of the window
EndIsFinal ==
    Running =>
        /\ \A i \in 1..Len(schedule) :
              schedule[i].scheduledEnd >= endTime => i = Len(schedule)
        /\ \A i \in PlacedTasks : schedule[i].scheduledStart < endTime
        /\ Cardinality(ClippedTasks) <= 1
        /\ \A i \in ClippedTasks : schedule[i].scheduledEnd = endTime

\* a step taken with the cursor at or past the end of the window pushes nothing and
\* leaves the cursor at or past the end
OmitsAtEnd ==
    (Running /\ currentTime >= endTime) =>
        (schedule' = schedule /\ currentTime' >= endTime)

\* C12: once the cursor has reached the end of the window nothing further is placed
\* and no break is appended; at most one placed activity is clipped, and it ends
\* exactly at the end of the window
C12_NothingAfterEnd == []EndIsFinal /\ [][OmitsAtEnd]_vars

\* an activity was clipped at the end of the window and spread instances that were
\* still to be placed were omitted
C12_Witness ==
    /\ Returned
    /\ ClippedTasks # {}
    /\ spreadSlotIndex < Len(spreadSlots)
    /\ currentTime >= endTime


\* a break follows the pushed entry i
BreakFollows(i) == i < Len(schedule) /\ schedule[i + 1].sourceType = "break"

\* a break starting at t ends by the end of the window and by the start of the next
\* calendar block after t
BreakFits(t) ==
    /\ addMinutes(t, breakDuration) <= endTime
    /\ \/ getNextCalendarBlock(t) = 0
       \/ addMinutes(t, breakDuration) <= calendarBlocks[getNextCalendarBlock(t)].start

\* the durations the obligations and one-off items of this invocation ask for
CandidateDurations ==
    {coreTasks[k].duration : k \in 1..Len(coreTasks)}
        \cup {todos[k].duration : k \in 1..Len(todos)}

\* addTask applied to the engine's present state for a candidate of duration d
Attempt(d) == addTask(engine, <<"core", 0>>, "core", <<"core", 0>>, d, "none")

AttemptPlaces(d) == Len(Attempt(d).schedule) > Len(schedule)

AttemptAddsBreak(d) == Len(Attempt(d).schedule) = Len(schedule) + 2

\* the end of the activity an attempt places
AttemptEnd(d) == Attempt(d).schedule[Len(schedule) + 1].scheduledEnd

\* C13 as stated: after a placed activity a break of breakDuration minutes follows
\* if and only if it fits before the end of the window and before the next calendar
\* block; the cursor moves to the break's end, and is left at the activity's end
\* when no break is appended
C13_BreakIffFits ==
    (Running /\ breakDuration > 0) =>
        /\ \A i \in PlacedTasks :
              /\ BreakFollows(i) <=> BreakFits(schedule[i].scheduledEnd)
              /\ BreakFollows(i) => schedule[i + 1].duration = breakDuration
        /\ \A d \in CandidateDurations :
              AttemptPlaces(d) =>
                 Attempt(d).currentTime =
                    IF AttemptAddsBreak(d)
                    THEN addMinutes(AttemptEnd(d), breakDuration)
                    ELSE AttemptEnd(d)

\* the cursor after an activity that ended at t, before the break is tried: moved
\* past the calendar blocks it lies in when breaks are configured and the window
\* has not ended
CursorAfter(t) ==
    IF breakDuration > 0 /\ t < endTime THEN advancePastCalendarBlocks(t) ELSE t

\* C13 as amended: with breakDuration > 0, after a placed activity that ends before
\* the end of the window the cursor first moves past the calendar blocks it lies
\* in; a break of breakDuration minutes is appended there if and only if it ends by
\* the end of the window and by the start of the next calendar block, and then the
\* cursor moves to the break's end; otherwise the cursor stays where the blocks
\* left it. With breakDuration = 0 no break is appended and the cursor stays at the
\* activity's end.
C13_BreakAfterBlocks ==
    Running =>
        /\ \A i \in PlacedTasks :
              LET t == CursorAfter(schedule[i].scheduledEnd)
              IN /\ BreakFollows(i) <=> (breakDuration > 0 /\ t < endTime /\ BreakFits(t))
                 /\ BreakFollows(i) =>
                       /\ schedule[i + 1].duration = breakDuration
                       /\ schedule[i + 1].scheduledStart = t
                       /\ schedule[i + 1].scheduledEnd = addMinutes(t, breakDuration)
        /\ \A i \in 1..Len(schedule) :
              schedule[i].sourceType = "break" => (i > 1 /\ isTaskEntry(schedule[i - 1]))
        /\ \A d \in CandidateDurations :
              AttemptPlaces(d) =>
                 Attempt(d).currentTime =
                    IF AttemptAddsBreak(d)
                    THEN addMinutes(CursorAfter(AttemptEnd(d)), breakDuration)
                    ELSE CursorAfter(AttemptEnd(d))


\* a break was appended after the calendar block its activity ended in, another
\* activity that ended before the end of the window got no break, and a further
\* candidate can still be placed
C13_Witness ==
    /\ Running /\ breakDuration > 0
    /\ \E i \in PlacedTasks :
          BreakFollows(i) /\ schedule[i + 1].scheduledStart > schedule[i].scheduledEnd
    /\ \E j \in PlacedTasks : ~BreakFollows(j) /\ schedule[j].scheduledEnd < endTime
    /\ \E d \in CandidateDurations : AttemptPlaces(d)


\* C14: no returned break overlaps an external block clamped to the work hours
C14_NoBreakInBlock ==
    Returned =>
        \A k \in BreakEntries : \A b \in ClampedBlocks :
            Disjoint(result[k].scheduledStart, result[k].scheduledEnd, b[1], b[2])

\* a break was suppressed after an activity that ended within ten minutes of, at or
\* inside a block, another break was appended, and two blocks overlap each other
C14_Witness ==
    /\ Returned /\ breakDuration > 0
    /\ BreakEntries # {}
    /\ \E i \in TaskEntries : \E b \in ClampedBlocks :
          /\ result[i].scheduledEnd < endTime
          /\ b[1] < addMinutes(result[i].scheduledEnd, breakDuration)
          /\ result[i].scheduledEnd < b[2]
          /\ \A k \in BreakEntries : result[k].scheduledStart # result[i].scheduledEnd
    /\ \E b1 \in ClampedBlocks : \E b2 \in ClampedBlocks :
          b1 # b2 /\ ~Disjoint(b1[1], b1[2], b2[1], b2[2])


\* the event is not whole-day and overlaps the calendar day of the target date
OverlapsTargetDay(event) ==
    /\ ~event.isAllDay
    /\ event.start < (date + 1) * MsPerDay
    /\ event.end > date * MsPerDay

EntriesOf(event) == {k \in CalendarEntries : result[k].sourceId = event.id}

\* C15: the returned list holds exactly one calendar entry for each event that is
\* not whole-day and overlaps the target day, with the event's own start and end;
\* the other events yield no entry and no exclusion zone
C15_CalendarEntries ==
    Returned =>
        /\ \A i \in 1..Len(calendarEvents) :
              LET event == calendarEvents[i]
              IN IF OverlapsTargetDay(event)
                 THEN /\ Cardinality(EntriesOf(event)) = 1
                      /\ \A k \in EntriesOf(event) :
                            /\ result[k].scheduledStart = event.start
                            /\ result[k].scheduledEnd = event.end
                 ELSE /\ EntriesOf(event) = {}
                      /\ \A b \in 1..Len(calendarBlocks) : calendarBlocks[b].event # event
        /\ \A k \in CalendarEntries :
              \E i \in 1..Len(calendarEvents) : calendarEvents[i].id = result[k].sourceId

\* an event that began the evening before and lies outside the work hours was
\* returned with its own times, and another event of the input was left out
C15_Witness ==
    /\ Returned
    /\ \E k \in CalendarEntries :
          /\ result[k].scheduledStart < date * MsPerDay
          /\ result[k].scheduledEnd <= startTime
    /\ \E i \in 1..Len(calendarEvents) : EntriesOf(calendarEvents[i]) = {}


\* C16: on a disabled day both entry points return the empty list
C16_DisabledReturnsEmpty ==
    (pc = "done" /\ ~dayConfig.enabled) => result = <<>>

\* a disabled day was run with an obligation, a one-off item and an event of the
\* target day, through the date-parameterised entry point
C16_Witness ==
    /\ pc = "done" /\ ~dayConfig.enabled
    /\ entry = "forDate"
    /\ coreTasks # <<>> /\ todos # <<>>
    /\ \E i \in 1..Len(calendarEvents) : OverlapsTargetDay(calendarEvents[i])


\* C17: with an enabled window whose end is not after its start nothing is placed,
\* no event becomes an exclusion zone, and exactly the day's calendar entries are
\* returned
C17_EmptyWindow ==
    (Running /\ endTime <= startTime) =>
        /\ schedule = <<>>
        /\ calendarBlocks = <<>>
        /\ pc = "done" =>
              /\ \A k \in 1..Len(result) : result[k].sourceType = "calendar"
              /\ Len(result) = Cardinality({i \in 1..Len(calendarEvents) :
                                              OverlapsTargetDay(calendarEvents[i])})

\* an inverted window was run with an obligation, a one-off item and an event
\* between the window's end and its start, and the event alone was returned
C17_Witness ==
    /\ Returned /\ endTime < startTime
    /\ coreTasks # <<>> /\ todos # <<>>
    /\ \E i \in 1..Len(calendarEvents) :
          /\ calendarEvents[i].start >= endTime /\ calendarEvents[i].end <= startTime
          /\ EntriesOf(calendarEvents[i]) # {}
    /\ Len(result) = 1


IsEligible(todo) == \E k \in 1..Len(eligibleTodos) : eligibleTodos[k].id = todo.id

\* C18: an incomplete one-off item tagged 'tomorrow' is eligible for every target
\* day that is today or later, in both entry points
C18_TomorrowFromToday ==
    (Running /\ date >= today) =>
        \A i \in 1..Len(todos) :
            (todos[i].timeframe = "tomorrow" /\ ~todos[i].completed) => IsEligible(todos[i])


\* day 0 is a Monday: a and b lie in weeks (Monday to Sunday) that are n weeks apart
WeeksApart(a, b, n) ==
    \E m \in {k \in (0 - 14)..28 : k % 7 = 0} :
        /\ m <= a /\ a <= m + 6
        /\ m + 7 * n <= b /\ b <= m + 7 * n + 6

\* the reference of C19 for the tags other than 'tomorrow'
EligibleByReference(todo) ==
    /\ ~todo.completed
    /\ CASE todo.timeframe = "today" -> date = today
         [] todo.timeframe = "this_week" -> WeeksApart(today, date, 0)
         [] todo.timeframe = "next_week" -> WeeksApart(today, date, 1)
         [] todo.timeframe = "this_month" -> monthOf(date) = monthOf(today)
         [] todo.timeframe = "someday" -> TRUE

\* C19: in generateScheduleForDate an item with a tag other than 'tomorrow' is
\* eligible exactly when it is incomplete and the reference admits its tag for the
\* pair of today and target day
C19_EligibleForDate ==
    (Running /\ entry = "forDate") =>
        \A i \in 1..Len(todos) :
            todos[i].timeframe # "tomorrow" =>
                (IsEligible(todos[i]) <=> EligibleByReference(todos[i]))

\* a 'next_week' item was placed for a target day of the following week that lies
\* in the next month
C19_Witness ==
    /\ Returned /\ entry = "forDate"
    /\ Len(todos) = 1 /\ todos[1].timeframe = "next_week"
    /\ monthOf(date) # monthOf(today)
    /\ Len(result) = 1 /\ result[1].sourceId = todos[1].id


\* the pushed entries of the one-off item
PlacementsOf(todo) ==
    {i \in 1..Len(schedule) : schedule[i].sourceType = "todo" /\ schedule[i].sourceId = todo.id}

\* C20: each one-off item yields at most one placed activity per invocation
C20_AtMostOncePerItem ==
    Running =>
        /\ \A i \in 1..Len(todos) : Cardinality(PlacementsOf(todos[i])) <= 1
        /\ pc = "done" =>
              \A i \in 1..Len(todos) :
                 Cardinality({k \in TaskEntries : result[k].sourceType = "todo"
                                                  /\ result[k].sourceId = todos[i].id}) <= 1

\* the morning step tried a 'today' item when an external block had pushed the
\* cursor to the end of the window: the item was recorded as handled and the
\* remaining-items step did not place it either
C20_Witness ==
    /\ Returned
    /\ calendarBlocks # <<>>
    /\ \E i \in 1..Len(todos) :
          /\ todos[i].timeframe = "today"
          /\ todos[i].id \in scheduledTodoIds
          /\ PlacementsOf(todos[i]) = {}
    /\ currentTime >= endTime


\* the pushed entries of the obligation
InstancesOf(task) ==
    {i \in 1..Len(schedule) : schedule[i].sourceType = "core" /\ schedule[i].sourceId = task.id}

\* the pushed entries of spread obligations: those whose obligation has a slot
SpreadPlaced ==
    {i \in 1..Len(schedule) :
        /\ schedule[i].sourceType = "core"
        /\ \E k \in 1..Len(spreadSlots) : spreadSlots[k].task.id = schedule[i].sourceId}

\* the target instant of the slot behind a pushed spread entry
SlotTimeOf(x) ==
    LET k == CHOOSE k \in 1..Len(spreadSlots) :
                /\ spreadSlots[k].task.id = x.sourceId
                /\ (timesOf(spreadSlots[k].task) > 1 => spreadSlots[k].instanceNumber = x.title[2])
    IN spreadSlots[k].time

\* C21: the placed instances of a spread obligation with repeat count N > 1 are
\* numbered 1..k with k <= N, titled (i/N), in ascending i by start; the placed
\* slots of all spread obligations follow each other in ascending target instant
C21_SpreadPrefix ==
    Running =>
        /\ \A t \in 1..Len(coreTasks) :
              (coreTaskRuns(coreTasks[t]) /\ timesOf(coreTasks[t]) > 1) =>
                 LET placed == InstancesOf(coreTasks[t])
                     n == timesOf(coreTasks[t])
                 IN /\ Cardinality(placed) <= n
                    /\ {schedule[i].title[2] : i \in placed} = 1..Cardinality(placed)
                    /\ \A i \in placed : schedule[i].title = <<coreTasks[t].id, schedule[i].title[2], n>>
                    /\ \A i \in placed : \A j \in placed :
                          schedule[i].title[2] < schedule[j].title[2]
                             => schedule[i].scheduledStart < schedule[j].scheduledStart
        /\ \A i \in SpreadPlaced : \A j \in SpreadPlaced :
              schedule[i].scheduledStart < schedule[j].scheduledStart
                 => SlotTimeOf(schedule[i]) <= SlotTimeOf(schedule[j])

\* two spread obligations were placed with an instance of one between two
\* instances of the other, and a third instance was left out at the end of the day
C21_Witness ==
    /\ Returned
    /\ \E i \in SpreadPlaced : \E j \in SpreadPlaced : \E k \in SpreadPlaced :
          /\ i < j /\ j < k
          /\ schedule[i].sourceId = schedule[k].sourceId
          /\ schedule[i].sourceId # schedule[j].sourceId
          /\ schedule[j].title[3] > 1 /\ schedule[i].title[3] > 1
    /\ spreadSlotIndex < Len(spreadSlots)


\* the engine's locals at the moment the step that is due calls addTask for an
\* obligation or a one-off item (not a spread instance), if it does
Commits ==
    CASE pc = "morning" /\ idx <= Len(morningTasks) -> {flushSpread(engine)}
      [] pc = "midday" /\ idx <= Len(middayTasks) -> {flushSpread(engine)}
      [] pc = "afternoon" /\ idx <= Len(afternoonTasks) -> {flushSpread(engine)}
      [] pc = "anytime" /\ idx <= Len(remainingAnytimeTasks) -> {flushSpread(engine)}
      [] pc = "morningTodos" /\ idx <= Len(eligibleTodos) /\ currentTime < morningSlotEnd ->
            LET e1 == IF shouldInsertSpreadTask(engine) THEN insertSpreadTask(engine) ELSE engine
            IN IF /\ eligibleTodos[idx].id \notin scheduledTodoIds
                  /\ e1.currentTime < morningSlotEnd
                  /\ isMorningTimeframe(eligibleTodos[idx].timeframe)
               THEN {e1} ELSE {}
      [] pc = "middayGap" /\ gapFillRuns(middaySlotStart, middayTasks) ->
            IF shouldInsertSpreadTask(engine) THEN {} ELSE {engine}
      [] pc = "afternoonGap" /\ gapFillRuns(afternoonSlotStart, afternoonTasks) ->
            IF shouldInsertSpreadTask(engine) THEN {} ELSE {engine}
      [] pc = "todos" /\ idx <= Len(remainingTodos) /\ currentTime < endTime ->
            IF flushSpread(engine).currentTime < endTime THEN {flushSpread(engine)} ELSE {}
      [] OTHER -> {}

\* the slots not yet consumed that are due at cursor c: target instant reached, or
\* less than 30 minutes ahead
DueSlots(e) ==
    {k \in (e.spreadSlotIndex + 1)..Len(spreadSlots) :
        \/ spreadSlots[k].time <= e.currentTime
        \/ spreadSlots[k].time < addMinutes(e.currentTime, SpreadLookaheadMinutes)}

\* C22: whenever the engine commits to placing an obligation or a one-off item
\* with the cursor before the end of the window, no pending spread slot is due
C22_DueSlotsFlushed ==
    Running => \A e \in Commits : e.currentTime < endTime => DueSlots(e) = {}


\* C25: no returned obligation, one-off item or break starts inside an external
\* block clamped to the work hours
C25_NoStartInBlock ==
    Returned =>
        \A i \in 1..Len(result) : \A b \in ClampedBlocks :
            result[i].sourceType # "calendar" =>
                ~(b[1] <= result[i].scheduledStart /\ result[i].scheduledStart < b[2])

\* an activity starts exactly where the longer of two blocks with the same start
\* ends, the shorter one coming first in the feed
C25_Witness ==
    /\ Returned
    /\ Len(calendarBlocks) = 2
    /\ calendarBlocks[1].start = calendarBlocks[2].start
    /\ calendarBlocks[1].end < calendarBlocks[2].end
    /\ \E i \in TaskEntries : result[i].scheduledStart = calendarBlocks[2].end
    /\ \E i \in TaskEntries : result[i].scheduledStart < calendarBlocks[1].start


\* the obligation behind a returned core entry
CoreOf(x) == coreTasks[CHOOSE k \in 1..Len(coreTasks) : coreTasks[k].id = x.sourceId]

\* the returned entries of the obligations that are not spread and prefer p
PlacedPreferring(p) ==
    {i \in TaskEntries :
        /\ result[i].sourceType = "core"
        /\ isRegularTask(CoreOf(result[i]))
        /\ CoreOf(result[i]).preferredTime = p}

\* the returned no-preference obligations that no gap-fill consumed
PlacedAfterGapFill ==
    {i \in PlacedPreferring("anytime") :
        \E k \in 1..Len(remainingAnytimeTasks) : remainingAnytimeTasks[k].id = result[i].sourceId}

StartsBefore(S, T) ==
    \A i \in S : \A j \in T : result[i].scheduledStart < result[j].scheduledStart

\* C26: morning obligations start before midday ones, these before afternoon ones,
\* the no-preference obligations left by gap-fill after the afternoon ones, and the
\* one-off items tagged neither 'today' nor 'tomorrow' after every non-spread
\* obligation
C26_BucketOrder ==
    Returned =>
        /\ StartsBefore(PlacedPreferring("morning"), PlacedPreferring("midday"))
        /\ StartsBefore(PlacedPreferring("midday"), PlacedPreferring("afternoon"))
        /\ StartsBefore(PlacedPreferring("morning"), PlacedPreferring("afternoon"))
        /\ StartsBefore(PlacedPreferring("afternoon"), PlacedAfterGapFill)
        /\ StartsBefore({i \in TaskEntries : result[i].sourceType = "core"
                                             /\ isRegularTask(CoreOf(result[i]))},
                        {j \in TaskEntries : result[j].sourceType = "todo"
                                             /\ result[j].timeframe \notin {"today", "tomorrow"}})

\* an afternoon obligation was placed before a no-preference obligation that
\* gap-fill had left, after a one-off item of the morning step
C26_Witness ==
    /\ Returned
    /\ PlacedPreferring("afternoon") # {}
    /\ PlacedAfterGapFill # {}
    /\ \E j \in TaskEntries : result[j].sourceType = "todo" /\ result[j].timeframe = "today"

\* a midday obligation was placed between a morning obligation and a one-off item
\* of the week
C26_Covered ==
    /\ Returned
    /\ PlacedPreferring("morning") # {} /\ PlacedPreferring("midday") # {}
    /\ \E j \in TaskEntries : result[j].sourceType = "todo" /\ result[j].timeframe = "this_week"


\* the entries a step appends to the output list
Appended == {i \in Len(schedule) + 1 .. Len(schedule') : TRUE}

\* the morning step places a 'today' item only before the end of the morning third
MorningItemsBeforeBoundary ==
    (pc = "morningTodos" /\ scheduledTodoIds' # scheduledTodoIds) =>
        \A i \in Appended :
            schedule'[i].sourceType = "todo" => schedule'[i].scheduledStart < morningSlotEnd

\* a gap-fill step places a no-preference obligation only before the third it fills toward
GapFillBeforeBoundary(phase, boundary) ==
    (pc = phase /\ remainingAnytimeTasks' # remainingAnytimeTasks) =>
        \A i \in Appended :
            (schedule'[i].sourceType = "core"
             /\ schedule'[i].sourceId = Head(remainingAnytimeTasks).id)
                => schedule'[i].scheduledStart < boundary

\* C27: every item placed by the morning step starts before the end of the morning
\* third, and every no-preference obligation placed by a gap-fill step starts before
\* the start of the third it fills toward
C27_BoundaryRespected ==
    [][/\ MorningItemsBeforeBoundary
       /\ GapFillBeforeBoundary("middayGap", middaySlotStart)
       /\ GapFillBeforeBoundary("afternoonGap", afternoonSlotStart)]_vars

C27_MorningOnly == [][MorningItemsBeforeBoundary]_vars
C27_GapFillOnly == [][GapFillBeforeBoundary("middayGap", middaySlotStart) /\ GapFillBeforeBoundary("afternoonGap", afternoonSlotStart)]_vars


----------------------------------------------------------------------------
\* Two invocations on the same stores' data

\* what the two invocations share: the stores' data
data == <<coreTasks, todos, calendarEvents>>

\* what an invocation owns: its parameters and everything it declares
Invocation ==
    [entry |-> entry, today |-> today, date |-> date, dayConfig |-> dayConfig,
     msOfMinute |-> msOfMinute,
     calendarBlocks |-> calendarBlocks, calendarScheduledTasks |-> calendarScheduledTasks,
     eligibleTodos |-> eligibleTodos, morningTasks |-> morningTasks,
     middayTasks |-> middayTasks, afternoonTasks |-> afternoonTasks,
     spreadSlots |-> spreadSlots, remainingTodos |-> remainingTodos,
     pc |-> pc, idx |-> idx, currentTime |-> currentTime,
     spreadSlotIndex |-> spreadSlotIndex, remainingAnytimeTasks |-> remainingAnytimeTasks,
     scheduledTodoIds |-> scheduledTodoIds, schedule |-> schedule, result |-> result]

\* a call that has not started
NotStarted(e, t, d, config, ms) ==
    [entry |-> e, today |-> t, date |-> d, dayConfig |-> config, msOfMinute |-> ms,
     calendarBlocks |-> <<>>, calendarScheduledTasks |-> <<>>, eligibleTodos |-> <<>>,
     morningTasks |-> <<>>, middayTasks |-> <<>>, afternoonTasks |-> <<>>,
     spreadSlots |-> <<>>, remainingTodos |-> <<>>,
     pc |-> "start", idx |-> 1, currentTime |-> 0, spreadSlotIndex |-> 0,
     remainingAnytimeTasks |-> <<>>, scheduledTodoIds |-> {}, schedule |-> <<>>,
     result |-> <<>>]

Again(s) == NotStarted(s.entry, s.today, s.date, s.dayConfig, s.msOfMinute)

\* a resumption that leaves the cursor of the invocation that ran before
ResumeOnSharedCursor(s) ==
    /\ entry' = s.entry /\ today' = s.today /\ date' = s.date /\ dayConfig' = s.dayConfig
    /\ msOfMinute' = s.msOfMinute
    /\ calendarBlocks' = s.calendarBlocks
    /\ calendarScheduledTasks' = s.calendarScheduledTasks
    /\ eligibleTodos' = s.eligibleTodos
    /\ morningTasks' = s.morningTasks
    /\ middayTasks' = s.middayTasks
    /\ afternoonTasks' = s.afternoonTasks
    /\ spreadSlots' = s.spreadSlots
    /\ remainingTodos' = s.remainingTodos
    /\ pc' = s.pc /\ idx' = s.idx
    /\ currentTime' = IF s.pc = "start" THEN s.currentTime ELSE currentTime
    /\ spreadSlotIndex' = s.spreadSlotIndex
    /\ remainingAnytimeTasks' = s.remainingAnytimeTasks
    /\ scheduledTodoIds' = s.scheduledTodoIds
    /\ schedule' = s.schedule /\ result' = s.result

\* the invocation s runs on: every local is its own (let currentTime, const schedule,
\* const scheduledTodoIds, let spreadSlotIndex are declared inside the function)
Resume(s) ==
    /\ entry' = s.entry /\ today' = s.today /\ date' = s.date /\ dayConfig' = s.dayConfig
    /\ msOfMinute' = s.msOfMinute
    /\ calendarBlocks' = s.calendarBlocks
    /\ calendarScheduledTasks' = s.calendarScheduledTasks
    /\ eligibleTodos' = s.eligibleTodos
    /\ morningTasks' = s.morningTasks
    /\ middayTasks' = s.middayTasks
    /\ afternoonTasks' = s.afternoonTasks
    /\ spreadSlots' = s.spreadSlots
    /\ remainingTodos' = s.remainingTodos
    /\ pc' = s.pc /\ idx' = s.idx
    /\ currentTime' = s.currentTime
    /\ spreadSlotIndex' = s.spreadSlotIndex
    /\ remainingAnytimeTasks' = s.remainingAnytimeTasks
    /\ scheduledTodoIds' = s.scheduledTodoIds
    /\ schedule' = s.schedule /\ result' = s.result

\* a returned layout with the call that returned it
Returns(mode) ==
    [entry |-> entry, today |-> today, date |-> date, msOfMinute |-> msOfMinute,
     mode |-> mode, result |-> result]

app == <<todaySchedule, activeTaskId, showRegenerateConfirm, taskStore, calendarStore,
         mounted, caller, storeOps>>

\* an invocation that ran alone returns; the other one runs alone next, then both together
AloneReturns ==
    /\ stage \in {"aloneA", "aloneB"}
    /\ pc = "done"
    /\ runs' = Append(runs, Returns("alone"))
    /\ Resume(suspended)
    /\ suspended' = Again(Invocation)
    /\ stage' = IF stage = "aloneA" THEN "aloneB" ELSE "together"
    /\ UNCHANGED <<data, app>>

\* the running invocation is suspended between two of its steps and the other one runs on
Switch ==
    /\ stage \in {"together", "interleaved"}
    /\ pc # "done"
    /\ suspended.pc # "done"
    /\ Resume(suspended)
    /\ suspended' = Invocation
    /\ stage' = IF pc # "start" /\ suspended.pc # "start" THEN "interleaved" ELSE stage
    /\ UNCHANGED <<runs, data, app>>

\* one of the two invocations running together returns; the other one runs on
TogetherReturns ==
    /\ stage \in {"together", "interleaved"}
    /\ pc = "done"
    /\ runs' = Append(runs, Returns(stage))
    /\ IF suspended.pc = "done"
       THEN /\ stage' = "finished"
            /\ UNCHANGED <<suspended, inputs, consts, remainingTodos, pc, idx, currentTime,
                           spreadSlotIndex, remainingAnytimeTasks, scheduledTodoIds,
                           schedule, result>>
       ELSE /\ Resume(suspended)
            /\ suspended' = Invocation
            /\ UNCHANGED stage
    /\ UNCHANGED <<data, app>>

NextPair ==
    \/ Next
    \/ AloneReturns
    \/ Switch
    \/ TogetherReturns


\* the obligations, items, events and clock readings of the two invocations
PairCores ==
    { <<>>,
      << Core("morning", 30, 1), Core("midday", 30, 1) >>,
      << Core("anytime", 30, 1), Core("midday", 30, 1) >>,
      << Core("anytime", 30, 1), Core("afternoon", 30, 1) >>,
      << Core("anytime", 30, 1) >>,
      << Core("spread", 30, 2) >> }

PairTodos ==
    { <<>>,
      << Todo("today", 30, 1, FALSE) >>,
      << Todo("today", 30, 1, FALSE), Todo("this_week", 30, 2, FALSE) >>,
      << Todo("tomorrow", 30, 1, TRUE), Todo("this_week", 30, 2, FALSE) >>,
      << Todo("tomorrow", 30, 1, FALSE), Todo("this_week", 30, 2, FALSE) >>,
      << Todo("tomorrow", 30, 1, FALSE) >> }

PairEvents == << Event(0, 9, 2, 9, 30, FALSE), Event(1, 10, 0, 11, 0, FALSE) >>

PairMs == {0, 30 * 1000}

PairConfig == Config(TRUE, 9, 12, 10)

\* generateDailySchedule for today and generateScheduleForDate for today or the next
\* day, on the same data; events only where every instant is a whole minute
InitPair ==
    /\ EngineIdle
    /\ \E c \in PairCores : coreTasks = WithIds(c, "core")
    /\ \E t \in PairTodos : todos = WithIds(t, "todo")
    /\ entry = "daily" /\ today = 2 /\ date = 2 /\ dayConfig = PairConfig
    /\ msOfMinute \in PairMs
    /\ \E d \in {2, 3}, ms \in PairMs :
          /\ suspended = NotStarted("forDate", 2, d, PairConfig, ms)
          /\ calendarEvents \in
                IF ms = 0 /\ msOfMinute = 0
                THEN {<<>>, EventsOn(PairEvents, 2)}
                ELSE {<<>>}
    /\ stage = "aloneA"
    /\ runs = <<>>
    /\ todaySchedule = <<>>
    /\ activeTaskId = 0
    /\ showRegenerateConfirm = FALSE
    /\ taskStore = [todos |-> <<>>]
    /\ calendarStore = [events |-> <<>>, fetch |-> "none"]
    /\ mounted = [todos |-> <<>>]
    /\ caller = "none"
    /\ storeOps = 0

SpecPair == InitPair /\ [][NextPair]_vars

\* two returned layouts of the same call
SameCall(r, s) ==
    /\ r.entry = s.entry /\ r.today = s.today /\ r.date = s.date
    /\ r.msOfMinute = s.msOfMinute

NoIncompleteTomorrow ==
    \A k \in 1..Len(todos) : todos[k].completed \/ todos[k].timeframe # "tomorrow"

\* a layout of generateDailySchedule and one of generateScheduleForDate for the same day
ForToday(r, s) ==
    /\ r.entry = "daily" /\ s.entry = "forDate"
    /\ s.today = r.today /\ s.date = r.today

\* C29: with no incomplete item tagged 'tomorrow', generateScheduleForDate for today
\* returns the layout generateDailySchedule returns
C29_EntryPointsAgree ==
    \A i, j \in 1..Len(runs) :
        (ForToday(runs[i], runs[j]) /\ NoIncompleteTomorrow)
            => runs[i].result = runs[j].result

\* the same, for a date argument that carries the seconds and milliseconds of new Date()
C29_AgreeOnTheSameInstant ==
    \A i, j \in 1..Len(runs) :
        (ForToday(runs[i], runs[j]) /\ NoIncompleteTomorrow
         /\ runs[i].msOfMinute = runs[j].msOfMinute)
            => runs[i].result = runs[j].result

\* both entry points returned a layout with a morning item for the same instant
C29_SameInstantReached ==
    \E i, j \in 1..Len(runs) :
        /\ ForToday(runs[i], runs[j]) /\ NoIncompleteTomorrow
        /\ runs[i].msOfMinute = runs[j].msOfMinute
        /\ \E k \in 1..Len(runs[j].result) : runs[j].result[k].sourceType = "todo"
        /\ \E k \in 1..Len(runs[j].result) : runs[j].result[k].sourceType = "calendar"

\* on the same instant the layouts differ only by an incomplete 'tomorrow' item
C29_TomorrowDiverges ==
    \E i, j \in 1..Len(runs) :
        /\ ForToday(runs[i], runs[j]) /\ ~NoIncompleteTomorrow
        /\ runs[i].msOfMinute = runs[j].msOfMinute
        /\ runs[i].result # runs[j].result


----------------------------------------------------------------------------
\* The schedule store (useScheduleStore)

\* generateId gives every pushed entry an id of its own; here it is the entry's
\* position in the returned list
withIds(tasks) ==
    [i \in 1..Len(tasks) |->
        [id |-> i, sourceId |-> tasks[i].sourceId, sourceType |-> tasks[i].sourceType,
         title |-> tasks[i].title, scheduledStart |-> tasks[i].scheduledStart,
         scheduledEnd |-> tasks[i].scheduledEnd, status |-> tasks[i].status,
         duration |-> tasks[i].duration, timeframe |-> tasks[i].timeframe]]

\* the store's state as the operations read and write it
store == [todaySchedule |-> todaySchedule, activeTaskId |-> activeTaskId]

\* Array.prototype.findIndex, 0-based, -1 when no entry has the id
findIndex(tasks, id) ==
    IF \E k \in 1..Len(tasks) : tasks[k].id = id
    THEN (CHOOSE k \in 1..Len(tasks) :
             tasks[k].id = id /\ \A j \in 1..(k - 1) : tasks[j].id # id) - 1
    ELSE -1

\* nextTask?.id || null for the entry at the 0-based index
idAt(tasks, index) == IF index + 1 \in 1..Len(tasks) THEN tasks[index + 1].id ELSE 0

setTodaySchedule(tasks) ==
    [todaySchedule |-> tasks, activeTaskId |-> IF Len(tasks) > 0 THEN tasks[1].id ELSE 0]

updateScheduledTask(st, id, newStatus) ==
    [st EXCEPT !.todaySchedule =
        [k \in 1..Len(st.todaySchedule) |->
            IF st.todaySchedule[k].id = id
            THEN [st.todaySchedule[k] EXCEPT !.status = newStatus]
            ELSE st.todaySchedule[k]]]

setActiveTask(st, id) == [st EXCEPT !.activeTaskId = id]

completeTask(st, id) ==
    LET taskIndex == findIndex(st.todaySchedule, id)
    IN IF taskIndex = -1
       THEN st
       ELSE [todaySchedule |-> updateScheduledTask(st, id, "completed").todaySchedule,
             activeTaskId |-> idAt(st.todaySchedule, taskIndex + 1)]

skipTask(st, id) ==
    LET taskIndex == findIndex(st.todaySchedule, id)
    IN [todaySchedule |-> updateScheduledTask(st, id, "skipped").todaySchedule,
        activeTaskId |-> idAt(st.todaySchedule, taskIndex + 1)]

\* extendTask lengthening every entry
extendEveryTask(st, id, minutes) ==
    [st EXCEPT !.todaySchedule =
        [k \in 1..Len(st.todaySchedule) |->
            [st.todaySchedule[k] EXCEPT
                !.scheduledEnd = addMinutes(@, minutes),
                !.duration = @ + minutes,
                !.status = "overflow"]]]

extendTask(st, id, minutes) ==
    [st EXCEPT !.todaySchedule =
        [k \in 1..Len(st.todaySchedule) |->
            IF st.todaySchedule[k].id = id
            THEN [st.todaySchedule[k] EXCEPT
                    !.scheduledEnd = addMinutes(@, minutes),
                    !.duration = @ + minutes,
                    !.status = "overflow"]
            ELSE st.todaySchedule[k]]]

\* splice(index, 1) and splice(index, 0, x), 0-based
removeAt(s, index) == SubSeq(s, 1, index) \o SubSeq(s, index + 2, Len(s))
insertAt(s, index, x) == SubSeq(s, 1, index) \o <<x>> \o SubSeq(s, index + 1, Len(s))

reorderSchedule(st, activeId, overId) ==
    LET oldIndex == findIndex(st.todaySchedule, activeId)
        newIndex == findIndex(st.todaySchedule, overId)
    IN IF oldIndex = -1 \/ newIndex = -1
       THEN st
       ELSE [st EXCEPT !.todaySchedule =
                insertAt(removeAt(st.todaySchedule, oldIndex), newIndex,
                         st.todaySchedule[oldIndex + 1])]

\* the store takes the state an operation returns
Set(st) ==
    /\ todaySchedule' = st.todaySchedule
    /\ activeTaskId' = st.activeTaskId


\* the store operations applied to one installed layout, and the minutes of an extension
MaxStoreOps == 3
ExtendMinutes == {5, 15}

\* the ids an operation may be called with: every entry's, one no entry has, and
\* null (0) for setActiveTask
EntryIds == 1..(Len(todaySchedule) + 1)

engineState == <<inputs, consts, remainingTodos, pc, idx, currentTime, spreadSlotIndex,
                 remainingAnytimeTasks, scheduledTodoIds, schedule, result>>

rest == <<showRegenerateConfirm, taskStore, calendarStore, mounted, caller, suspended, runs>>

\* setTodaySchedule(schedule) with the layout the engine returned
SetTodaySchedule ==
    /\ stage = "generating"
    /\ pc = "done"
    /\ Set(setTodaySchedule(withIds(result)))
    /\ stage' = "installed"
    /\ UNCHANGED <<storeOps, engineState, rest>>

StoreOp(st) ==
    /\ stage = "installed"
    /\ storeOps < MaxStoreOps
    /\ Set(st)
    /\ storeOps' = storeOps + 1
    /\ UNCHANGED <<stage, engineState, rest>>

CompleteTask == \E id \in EntryIds : StoreOp(completeTask(store, id))

SkipTask == \E id \in EntryIds : StoreOp(skipTask(store, id))

ExtendTask == \E id \in EntryIds, m \in ExtendMinutes : StoreOp(extendTask(store, id, m))

ReorderSchedule == \E a, o \in EntryIds : StoreOp(reorderSchedule(store, a, o))

SetActiveTask == \E id \in EntryIds \cup {0} : StoreOp(setActiveTask(store, id))

NextStore ==
    \/ Next
    \/ SetTodaySchedule
    \/ CompleteTask
    \/ SkipTask
    \/ ExtendTask
    \/ ReorderSchedule
    \/ SetActiveTask

\* the layouts the store is given: short ones, of every step of the engine
StoreCores ==
    { << Core("morning", 30, 1), Core("midday", 30, 1) >>,
      << Core("anytime", 30, 1), Core("midday", 30, 1) >>,
      << Core("anytime", 30, 1), Core("afternoon", 30, 1) >>,
      << Core("anytime", 30, 1) >>,
      << Core("spread", 30, 2) >> }

StoreTodos == { <<>>, << Todo("today", 30, 1, FALSE), Todo("this_week", 30, 2, FALSE) >> }

StoreConfigs == {Config(TRUE, 9, 12, 0), Config(TRUE, 9, 12, 10)}

InitStore ==
    /\ EngineIdle
    /\ entry = "daily" /\ today = 2 /\ date = 2 /\ msOfMinute = 0
    /\ \E c \in StoreCores : coreTasks = WithIds(c, "core")
    /\ \E t \in StoreTodos : todos = WithIds(t, "todo")
    /\ dayConfig \in StoreConfigs
    /\ (todos = <<>> \/ (dayConfig.breakDuration = 0 /\ Len(coreTasks) = 1))
    /\ calendarEvents = <<>>
    /\ todaySchedule = <<>>
    /\ activeTaskId = 0
    /\ showRegenerateConfirm = FALSE
    /\ taskStore = [todos |-> <<>>]
    /\ calendarStore = [events |-> <<>>, fetch |-> "none"]
    /\ mounted = [todos |-> <<>>]
    /\ caller = "none"
    /\ storeOps = 0
    /\ suspended = NoInvocation
    /\ stage = "generating"
    /\ runs = <<>>

SpecStore == InitStore /\ [][NextStore]_vars

\* the installed entry with the id, and the engine's entry it was installed from
EntryOf(tasks, id) == tasks[findIndex(tasks, id) + 1]
EngineEntry(id) == result[id]

Installed == stage = "installed"

\* every entry keeps the engine's start, and its end and duration have moved together
StartsKept ==
    Installed =>
        /\ {todaySchedule[k].id : k \in 1..Len(todaySchedule)} = 1..Len(result)
        /\ Len(todaySchedule) = Len(result)
        /\ \A k \in 1..Len(todaySchedule) :
              LET x == todaySchedule[k]
                  e == EngineEntry(x.id)
              IN /\ x.scheduledStart = e.scheduledStart
                 /\ x.scheduledEnd >= e.scheduledEnd
                 /\ x.scheduledEnd - e.scheduledEnd = (x.duration - e.duration) * MsPerMinute

\* the step is extendTask(id, m): entry id gains m minutes and is marked 'overflow',
\* and no other entry and no position changes
IsExtension(id, m) ==
    /\ Len(todaySchedule') = Len(todaySchedule)
    /\ \A k \in 1..Len(todaySchedule) :
          IF todaySchedule[k].id = id
          THEN todaySchedule'[k] =
                  [todaySchedule[k] EXCEPT !.scheduledEnd = @ + m * MsPerMinute,
                                           !.duration = @ + m,
                                           !.status = "overflow"]
          ELSE todaySchedule'[k] = todaySchedule[k]

\* a step that changes an end or a duration is an extension
OnlyExtensionLengthens ==
    (Installed /\ Installed') =>
        \A id \in 1..Len(result) :
            LET x == EntryOf(todaySchedule, id)
                y == EntryOf(todaySchedule', id)
            IN (y.scheduledEnd # x.scheduledEnd \/ y.duration # x.duration)
                  => \E m \in ExtendMinutes : IsExtension(id, m)

\* C24: the store's operations leave every scheduledStart as installed, and change
\* scheduledEnd and duration only by extendTask(id, m), which adds m minutes to both,
\* marks the entry 'overflow' and leaves every other entry unchanged
C24_OnlyExtendLengthens == []StartsKept /\ [][OnlyExtensionLengthens]_vars

\* after three operations an entry extended by 5 and by 15 minutes stands completed
\* beside an entry no operation touched
C24_Witness ==
    /\ Installed
    /\ storeOps = MaxStoreOps
    /\ Len(todaySchedule) >= 2
    /\ \E k \in 1..Len(todaySchedule) :
          /\ todaySchedule[k].scheduledEnd = EngineEntry(todaySchedule[k].id).scheduledEnd + 20 * MsPerMinute
          /\ todaySchedule[k].status = "completed"
    /\ \E k \in 1..Len(todaySchedule) : todaySchedule[k] = withIds(result)[todaySchedule[k].id]


----------------------------------------------------------------------------
\* The application (App): the mount-time effects and the handlers of the day's schedule

\* the engine is called with the arguments; it runs to its return before the caller
\* goes on (the handlers are synchronous)
Call(handler, todosArg, eventsArg) ==
    /\ caller' = handler
    /\ todos' = todosArg
    /\ calendarEvents' = eventsArg
    /\ pc' = "start"
    /\ idx' = 1
    /\ currentTime' = 0
    /\ spreadSlotIndex' = 0
    /\ remainingAnytimeTasks' = <<>>
    /\ scheduledTodoIds' = {}
    /\ schedule' = <<>>
    /\ result' = <<>>
    /\ calendarBlocks' = <<>>
    /\ calendarScheduledTasks' = <<>>
    /\ eligibleTodos' = <<>>
    /\ morningTasks' = <<>>
    /\ middayTasks' = <<>>
    /\ afternoonTasks' = <<>>
    /\ spreadSlots' = <<>>
    /\ remainingTodos' = <<>>
    /\ UNCHANGED <<entry, today, date, dayConfig, coreTasks, msOfMinute>>

\* the engine has returned to the handler
BackIn(handler) == caller = handler /\ pc = "done"

\* no handler is running
Idle == caller = "none" /\ stage = "running"

hasStartedDay == \E k \in 1..Len(todaySchedule) : todaySchedule[k].status # "pending"

\* updateTodo(id, updates) of the task store
updateTodo(list, id, field, value) ==
    [k \in 1..Len(list) |->
        IF list[k].id = id
        THEN IF field = "completed" THEN [list[k] EXCEPT !.completed = value]
                                    ELSE [list[k] EXCEPT !.timeframe = value]
        ELSE list[k]]

\* schedule.find(t => t.sourceType !== 'break') from the 0-based index on: its id, or 0
firstTaskFrom(tasks, index) ==
    LET found == {k \in (index + 1)..Len(tasks) : tasks[k].sourceType # "break"}
    IN IF found = {} THEN 0
       ELSE tasks[CHOOSE k \in found : \A j \in found : k <= j].id

\* updateScheduledTask(id, {status: 'active'}) for a task that was found
activate(st, id) == IF id = 0 THEN st ELSE updateScheduledTask(st, id, "active")

scheduleStoreFrame == <<storeOps, suspended, runs>>


\* the mount effect that generates the schedule when none is installed
AutoGenerate ==
    /\ stage = "mounting"
    /\ caller = "none"
    /\ IF Len(todaySchedule) = 0 /\ (Len(coreTasks) > 0 \/ Len(mounted.todos) > 0)
       THEN /\ Call("autoGenerate", mounted.todos, calendarStore.events)
            /\ UNCHANGED stage
       ELSE /\ stage' = "running"
            /\ UNCHANGED <<caller, engineState>>
    /\ UNCHANGED <<todaySchedule, activeTaskId, showRegenerateConfirm, taskStore,
                   calendarStore, mounted, scheduleStoreFrame>>

AutoGenerateReturns ==
    /\ BackIn("autoGenerate")
    /\ Set(setTodaySchedule(withIds(result)))
    /\ caller' = "none"
    /\ stage' = "running"
    /\ UNCHANGED <<showRegenerateConfirm, taskStore, calendarStore, mounted,
                   scheduleStoreFrame, engineState>>

\* the events a successful fetch stores
FetchedEvents == EventsOn(<< Event(0, 9, 30, 10, 0, FALSE) >>, 2)

\* syncCalendar() resolves with success and count > 0: the effect's callback calls the
\* engine with the obligations and items of the first render and the fresh events
SyncSucceeds ==
    /\ Idle
    /\ calendarStore.fetch = "pending"
    /\ calendarStore' = [events |-> FetchedEvents, fetch |-> "settled"]
    /\ Call("sync", mounted.todos, FetchedEvents)
    /\ UNCHANGED <<todaySchedule, activeTaskId, showRegenerateConfirm, taskStore, mounted,
                   stage, scheduleStoreFrame>>

SyncReturns ==
    /\ BackIn("sync")
    /\ Set(setTodaySchedule(withIds(result)))
    /\ caller' = "none"
    /\ UNCHANGED <<showRegenerateConfirm, taskStore, calendarStore, mounted, stage,
                   scheduleStoreFrame, engineState>>

\* syncCalendar() resolves without success or with no event
SyncFails ==
    /\ Idle
    /\ calendarStore.fetch = "pending"
    /\ calendarStore' = [calendarStore EXCEPT !.fetch = "settled"]
    /\ UNCHANGED <<todaySchedule, activeTaskId, showRegenerateConfirm, taskStore, mounted,
                   caller, stage, scheduleStoreFrame, engineState>>

\* the Start Day button, shown while no entry has left 'pending'
HandleStartDay ==
    /\ Idle
    /\ ~showRegenerateConfirm
    /\ ~hasStartedDay
    /\ dayConfig.enabled
    /\ Call("startDay", taskStore.todos, calendarStore.events)
    /\ UNCHANGED <<todaySchedule, activeTaskId, showRegenerateConfirm, taskStore,
                   calendarStore, mounted, stage, scheduleStoreFrame>>

HandleStartDayReturns ==
    /\ BackIn("startDay")
    /\ IF Len(result) = 0
       THEN UNCHANGED <<todaySchedule, activeTaskId>>
       ELSE LET installed == setTodaySchedule(withIds(result))
                firstTask == firstTaskFrom(installed.todaySchedule, 0)
            IN Set(IF firstTask = 0 THEN installed
                   ELSE activate(setActiveTask(installed, firstTask), firstTask))
    /\ caller' = "none"
    /\ UNCHANGED <<showRegenerateConfirm, taskStore, calendarStore, mounted, stage,
                   scheduleStoreFrame, engineState>>

\* the Complete button of the current task, or the space key
HandleCompleteTask ==
    /\ Idle
    /\ activeTaskId # 0
    /\ LET taskIndex == findIndex(todaySchedule, activeTaskId)
           completed == todaySchedule[taskIndex + 1]
           nextTask == idAt(todaySchedule, taskIndex + 1)
       IN /\ taskIndex # -1
          /\ Set(activate(completeTask(store, activeTaskId), nextTask))
          /\ taskStore' =
                IF completed.sourceType = "todo"
                THEN [todos |-> updateTodo(taskStore.todos, completed.sourceId,
                                           "completed", TRUE)]
                ELSE taskStore
    /\ UNCHANGED <<showRegenerateConfirm, calendarStore, mounted, caller, stage,
                   scheduleStoreFrame, engineState>>

PostponeTimeframes == {"tomorrow"}

\* the Postpone choice of the current task, shown once the day has started
HandlePostponeTask ==
    /\ Idle
    /\ ~showRegenerateConfirm
    /\ hasStartedDay
    /\ activeTaskId # 0
    /\ LET taskIndex == findIndex(todaySchedule, activeTaskId)
           task == todaySchedule[taskIndex + 1]
           nextTask == firstTaskFrom(todaySchedule, taskIndex + 1)
       IN /\ taskIndex # -1
          /\ task.sourceType = "todo"
          /\ \E newTimeframe \in PostponeTimeframes :
                taskStore' = [todos |-> updateTodo(taskStore.todos, task.sourceId,
                                                   "timeframe", newTimeframe)]
          /\ Set(activate(skipTask(store, activeTaskId), nextTask))
    /\ UNCHANGED <<showRegenerateConfirm, calendarStore, mounted, caller, stage,
                   scheduleStoreFrame, engineState>>

\* a click on an entry of the timeline
OnTaskClick ==
    /\ Idle
    /\ ~showRegenerateConfirm
    /\ \E k \in 1..Len(todaySchedule) :
          LET task == todaySchedule[k]
              id == task.id
              released == IF activeTaskId # 0 /\ activeTaskId # id
                          THEN updateScheduledTask(store, activeTaskId, "pending")
                          ELSE store
          IN /\ task.status \in {"pending", "skipped"}
             /\ task.sourceType # "break"
             /\ Set(activate(setActiveTask(released, id), id))
    /\ UNCHANGED <<showRegenerateConfirm, taskStore, calendarStore, mounted, caller, stage,
                   scheduleStoreFrame, engineState>>

\* the Regenerate Schedule button, shown once the day has started
RegenerateSchedule ==
    /\ Idle
    /\ ~showRegenerateConfirm
    /\ hasStartedDay
    /\ IF \E k \in 1..Len(todaySchedule) : todaySchedule[k].status # "pending"
       THEN /\ showRegenerateConfirm' = TRUE
            /\ UNCHANGED <<caller, engineState>>
       ELSE /\ Call("regenerate", taskStore.todos, calendarStore.events)
            /\ UNCHANGED showRegenerateConfirm
    /\ UNCHANGED <<todaySchedule, activeTaskId, taskStore, calendarStore, mounted, stage,
                   scheduleStoreFrame>>

\* the dialog's Regenerate button: doRegenerateSchedule
DoRegenerateSchedule ==
    /\ Idle
    /\ showRegenerateConfirm
    /\ Call("regenerate", taskStore.todos, calendarStore.events)
    /\ UNCHANGED <<todaySchedule, activeTaskId, showRegenerateConfirm, taskStore,
                   calendarStore, mounted, stage, scheduleStoreFrame>>

DoRegenerateReturns ==
    /\ BackIn("regenerate")
    /\ Set(setTodaySchedule(withIds(result)))
    /\ showRegenerateConfirm' = FALSE
    /\ caller' = "none"
    /\ UNCHANGED <<taskStore, calendarStore, mounted, stage, scheduleStoreFrame,
                   engineState>>

\* the dialog's Cancel button
CancelRegenerate ==
    /\ Idle
    /\ showRegenerateConfirm
    /\ showRegenerateConfirm' = FALSE
    /\ UNCHANGED <<todaySchedule, activeTaskId, taskStore, calendarStore, mounted, caller,
                   stage, scheduleStoreFrame, engineState>>

NextApp ==
    \/ Next
    \/ AutoGenerate
    \/ AutoGenerateReturns
    \/ SyncSucceeds
    \/ SyncReturns
    \/ SyncFails
    \/ HandleStartDay
    \/ HandleStartDayReturns
    \/ HandleCompleteTask
    \/ HandlePostponeTask
    \/ OnTaskClick
    \/ RegenerateSchedule
    \/ DoRegenerateSchedule
    \/ DoRegenerateReturns
    \/ CancelRegenerate


\* the obligations and items of the stores when the application mounts; the day's items
\* were rolled over before (rolloverTimeframes runs once a day), todaySchedule is not
\* persisted, and the calendar store holds no events yet
AppCores ==
    { <<>>,
      << Core("morning", 30, 1), Core("midday", 30, 1) >>,
      << Core("anytime", 30, 1), Core("midday", 30, 1) >>,
      << Core("anytime", 30, 1), Core("afternoon", 30, 1) >>,
      << Core("anytime", 30, 1) >>,
      << Core("spread", 30, 2) >> }

AppTodos == { <<>>, << Todo("today", 30, 1, FALSE), Todo("this_week", 30, 2, FALSE) >> }

AppConfigs == {Config(TRUE, 9, 12, 0), Config(TRUE, 9, 12, 10)}

\* the engine's locals while no call is running
EngineReturned ==
    /\ pc = "done"
    /\ idx = 1
    /\ currentTime = 0
    /\ spreadSlotIndex = 0
    /\ remainingAnytimeTasks = <<>>
    /\ scheduledTodoIds = {}
    /\ schedule = <<>>
    /\ result = <<>>
    /\ calendarBlocks = <<>>
    /\ calendarScheduledTasks = <<>>
    /\ eligibleTodos = <<>>
    /\ morningTasks = <<>>
    /\ middayTasks = <<>>
    /\ afternoonTasks = <<>>
    /\ spreadSlots = <<>>
    /\ remainingTodos = <<>>

InitApp ==
    /\ EngineReturned
    /\ entry = "daily" /\ today = 2 /\ date = 2 /\ msOfMinute = 0
    /\ \E c \in AppCores : coreTasks = WithIds(c, "core")
    /\ \E t \in AppTodos :
          /\ taskStore = [todos |-> WithIds(t, "todo")]
          /\ mounted = [todos |-> WithIds(t, "todo")]
          /\ todos = WithIds(t, "todo")
    /\ dayConfig \in AppConfigs
    /\ (dayConfig.breakDuration = 0
          \/ (Len(coreTasks) = 1 /\ coreTasks[1].preferredTime = "anytime"
              /\ Len(taskStore.todos) = 2))
    /\ calendarEvents = <<>>
    /\ calendarStore \in {[events |-> <<>>, fetch |-> f] : f \in {"none", "pending"}}
    /\ todaySchedule = <<>>
    /\ activeTaskId = 0
    /\ showRegenerateConfirm = FALSE
    /\ caller = "none"
    /\ stage = "mounting"
    /\ storeOps = 0
    /\ suspended = NoInvocation
    /\ runs = <<>>


SpecApp == InitApp /\ [][NextApp]_vars

\* a handler's return replaces a schedule in which some entry has left 'pending'
StatusesLost ==
    /\ caller # "none" /\ caller' = "none"
    /\ hasStartedDay
    /\ todaySchedule' # todaySchedule

\* C28: today's schedule is replaced by a fresh layout while some entry has a status
\* other than 'pending' only after the user confirms the regenerate dialog
C28_NoLossWithoutConfirm ==
    [][StatusesLost => (caller = "regenerate" /\ showRegenerateConfirm)]_vars

\* the confirmed dialog replaced a started schedule
C28_ConfirmedReached ==
    /\ caller = "regenerate" /\ pc = "done" /\ showRegenerateConfirm /\ hasStartedDay

Active == {k \in 1..Len(todaySchedule) : todaySchedule[k].status = "active"}

\* C30: after any sequence of start day, complete, postpone and timeline clicks at most
\* one entry of today's schedule has status 'active'
C30_OneActive == Cardinality(Active) <= 1

====
